------------------------------ MODULE AppendLog ------------------------------
(***************************************************************************)
(* What the analyses rely on when they keep an iterator into a queue that   *)
(* still grows: one log that only grows at its end, and readers that each   *)
(* walk it from the start, in order, every entry once, and are told Nil    *)
(* exactly when nothing is left for them.                                   *)
(***************************************************************************)
EXTENDS Naturals, Sequences

CONSTANTS Elem,     \* what is pushed
          Reader,   \* the iterators
          Nil

VARIABLES log,      \* everything pushed, in order
          pos,      \* per reader, how many entries it has been given
          answer    \* per reader, what its last call of next returned

logVars == <<log, pos, answer>>

LogInit ==
    /\ log = <<>>
    /\ pos = [r \in Reader |-> 0]
    /\ answer = [r \in Reader |-> Nil]

LogAppend ==
    /\ \E e \in Elem : log' = Append(log, e)
    /\ UNCHANGED <<pos, answer>>

\* A new iterator starts at the first entry; a copied one where the other is.
LogStart(r) ==
    /\ \E n \in {0} \cup {pos[s] : s \in Reader} : pos' = [pos EXCEPT ![r] = n]
    /\ answer' = [answer EXCEPT ![r] = Nil]
    /\ UNCHANGED log

LogGet(r) ==
    /\ pos[r] < Len(log)
    /\ answer' = [answer EXCEPT ![r] = log[pos[r] + 1]]
    /\ pos' = [pos EXCEPT ![r] = @ + 1]
    /\ UNCHANGED log

LogNone(r) ==
    /\ pos[r] = Len(log)
    /\ answer' = [answer EXCEPT ![r] = Nil]
    /\ UNCHANGED <<log, pos>>

LogNext == LogAppend \/ \E r \in Reader : LogStart(r) \/ LogGet(r) \/ LogNone(r)

LogSpec == LogInit /\ [][LogNext]_logVars
=============================================================================
