------------------------- MODULE StackFilterProofs -------------------------
(***************************************************************************)
(* Three facts about the filter, for every call graph, pool, limit of         *)
(* contexts and depth.  The rows are exactly what is below their nodes: what  *)
(* a worker has is closed under calls but for its worklist, and nothing in    *)
(* it is outside a set that is closed.  No frame of a stack is filtered out:  *)
(* the run waits for the rows, and a frame reaches the frames above it, whose *)
(* functions are its context.  And contexts only refine the filter: each      *)
(* function of a call chain reaches the first.                                *)
(***************************************************************************)
EXTENDS StackFilter, TLAPS, WellFoundedInduction

-----------------------------------------------------------------------------
(* The matrix.                                                               *)

State == [index : Nodes \cup {0}, worklist : SUBSET Nodes, reachable_funcs : SUBSET Nodes]

\* What row i has, with the nodes in W still to come, is closed under calls.
ClosedUpTo(i, row, W) == neighbors(i) \subseteq row \cup W /\ \A n \in row : neighbors(n) \subseteq row \cup W
\* All of S is below i: it is in every set that is closed under calls.
OnlyBelow(i, S) == \A R \in SUBSET Nodes : ClosedBelow(i, R) => S \subseteq R

MatrixInv ==
    /\ mode \in Modes /\ todo \subseteq Nodes /\ done \subseteq Nodes
    /\ todo \cap done = {}
    /\ worker \in [Workers -> State]
    /\ relation_matrix \in [Nodes -> SUBSET Nodes]
    /\ \A w \in Workers : worker[w].index \notin todo
    /\ \A w \in Workers : worker[w].index = 0 => worker[w] = Idle
    /\ \A w \in Workers : worker[w].index # 0
          => ClosedUpTo(worker[w].index, worker[w].reachable_funcs, worker[w].worklist)
    /\ \A i \in done : ClosedUpTo(i, relation_matrix[i], {})
    /\ \A v, w \in Workers : v # w /\ worker[v].index # 0 => worker[v].index # worker[w].index
    /\ \A w \in Workers : worker[w].index # 0
          => OnlyBelow(worker[w].index, worker[w].reachable_funcs \cup worker[w].worklist)
    /\ \A i \in done : OnlyBelow(i, relation_matrix[i])

LEMMA NodeOfFunc == \A f \in NodeFunc : HasNode(f) /\ NodeOf(f) \in Nodes /\ Funcs[NodeOf(f)] = f
  BY DEF NodeFunc, HasNode, NodeOf

LEMMA NeighborsAreNodes == \A i : neighbors(i) \subseteq Nodes
  BY CallGraphAssumption, NodeOfFunc DEF neighbors

LEMMA IdleState == Idle \in State /\ Idle.index = 0 /\ Idle.worklist = {} /\ Idle.reachable_funcs = {}
  BY DEF Idle, State

LEMMA InitMatrix == FilterInit => MatrixInv
<1> SUFFICES ASSUME FilterInit PROVE MatrixInv
  OBVIOUS
<1>1. \A w \in Workers : worker[w] = Idle
  BY DEF FilterInit
<1>2. \A w \in Workers : worker[w].index = 0
  BY <1>1, IdleState
<1>3. worker \in [Workers -> State]
  BY IdleState DEF FilterInit
<1> QED
  BY <1>1, <1>2, <1>3, CallGraphAssumption DEF FilterInit, MatrixInv

LEMMA TakeNodeMatrix == ASSUME MatrixInv, NEW w \in Workers, TakeNode(w) PROVE MatrixInv'
<1>1. PICK i \in todo :
        /\ worker' = [worker EXCEPT ![w] = [Idle EXCEPT !.index = i, !.worklist = neighbors(i)]]
        /\ todo' = todo \ {i}
  BY DEF TakeNode
<1> DEFINE taken == [Idle EXCEPT !.index = i, !.worklist = neighbors(i)]
<1>2. /\ taken.index = i /\ taken.worklist = neighbors(i) /\ taken.reachable_funcs = {}
      /\ i \in Nodes /\ i # 0
  BY <1>1, CallGraphAssumption DEF MatrixInv, Idle
<1>3. taken \in State
  BY <1>2, NeighborsAreNodes DEF State, Idle
<1>4. worker' \in [Workers -> State] /\ worker'[w] = taken /\ \A v \in Workers : v # w => worker'[v] = worker[v]
  BY <1>1, <1>3 DEF MatrixInv
<1>5. ClosedUpTo(i, {}, neighbors(i))
  BY DEF ClosedUpTo
<1> HIDE DEF taken
<1>6. UNCHANGED <<mode, relation_matrix, done>>
  BY DEF TakeNode
<1>7. \A v \in Workers : worker'[v].index \notin todo'
  BY <1>1, <1>2, <1>4 DEF MatrixInv
<1>8. \A v \in Workers : worker'[v].index = 0 => worker'[v] = Idle
  BY <1>2, <1>4 DEF MatrixInv
<1>9. \A v \in Workers : worker'[v].index # 0
         => ClosedUpTo(worker'[v].index, worker'[v].reachable_funcs, worker'[v].worklist)
  BY <1>2, <1>4, <1>5 DEF MatrixInv
<1>10. \A j \in done : ClosedUpTo(j, relation_matrix[j], {}) /\ OnlyBelow(j, relation_matrix[j])
  BY DEF MatrixInv
<1>11. \A u, v \in Workers : u # v /\ worker'[u].index # 0 => worker'[u].index # worker'[v].index
  BY <1>1, <1>2, <1>4 DEF MatrixInv
<1>12. OnlyBelow(i, neighbors(i))
  BY DEF OnlyBelow, ClosedBelow
<1>13. \A v \in Workers : worker'[v].index # 0
         => OnlyBelow(worker'[v].index, worker'[v].reachable_funcs \cup worker'[v].worklist)
  BY <1>2, <1>4, <1>12 DEF MatrixInv
<1>14. todo' \subseteq Nodes /\ todo' \cap done = {}
  BY <1>1 DEF MatrixInv
<1> QED
  BY <1>4, <1>6, <1>7, <1>8, <1>9, <1>10, <1>11, <1>13, <1>14
  DEF MatrixInv, ClosedUpTo, OnlyBelow, ClosedBelow, neighbors

LEMMA PopNodeMatrix == ASSUME MatrixInv, NEW w \in Workers, PopNode(w) PROVE MatrixInv'
<1>1. PICK n \in worker[w].worklist : worker' = [worker EXCEPT ![w] = Popped(worker[w], n)]
  BY DEF PopNode
<1> DEFINE old == worker[w]
           new == Popped(old, n)
<1>2. old \in State /\ old.index # 0 /\ n \in Nodes
  <2>1. old \in State
    BY DEF MatrixInv
  <2>2. old # Idle
    BY IdleState
  <2> QED
    BY <2>1, <2>2 DEF MatrixInv, State
<1>3. /\ new \in State /\ new.index = old.index
      /\ n \in old.reachable_funcs
            => new.worklist = old.worklist \ {n} /\ new.reachable_funcs = old.reachable_funcs
      /\ n \notin old.reachable_funcs
            => /\ new.worklist = (old.worklist \ {n}) \cup neighbors(n)
               /\ new.reachable_funcs = old.reachable_funcs \cup {n}
  BY <1>2, NeighborsAreNodes DEF State, Popped
<1> HIDE DEF new
<1>4. worker' \in [Workers -> State] /\ worker'[w] = new /\ \A v \in Workers : v # w => worker'[v] = worker[v]
  BY <1>1, <1>3 DEF MatrixInv, new
<1>5. ClosedUpTo(old.index, old.reachable_funcs, old.worklist)
  BY <1>2 DEF MatrixInv
<1> HIDE DEF old
<1>6. ClosedUpTo(new.index, new.reachable_funcs, new.worklist)
  BY <1>3, <1>5 DEF ClosedUpTo
<1>7. UNCHANGED <<mode, todo, relation_matrix, done>>
  BY DEF PopNode
<1>8. \A v \in Workers : worker'[v].index \notin todo
  BY <1>3, <1>4 DEF MatrixInv, old
<1>9. \A v \in Workers : worker'[v].index = 0 => worker'[v] = Idle
  BY <1>2, <1>3, <1>4 DEF MatrixInv
<1>10. \A v \in Workers : worker'[v].index # 0
         => ClosedUpTo(worker'[v].index, worker'[v].reachable_funcs, worker'[v].worklist)
  BY <1>4, <1>6 DEF MatrixInv
<1>11. \A u, v \in Workers : u # v /\ worker'[u].index # 0 => worker'[u].index # worker'[v].index
  BY <1>3, <1>4 DEF MatrixInv, old
<1>12. OnlyBelow(old.index, old.reachable_funcs \cup old.worklist)
  BY <1>2 DEF MatrixInv, old
<1>13. OnlyBelow(new.index, new.reachable_funcs \cup new.worklist)
  BY <1>1, <1>3, <1>12 DEF OnlyBelow, ClosedBelow, old
<1>14. \A v \in Workers : worker'[v].index # 0
         => OnlyBelow(worker'[v].index, worker'[v].reachable_funcs \cup worker'[v].worklist)
  BY <1>4, <1>13 DEF MatrixInv
<1> QED
  BY <1>4, <1>7, <1>8, <1>9, <1>10, <1>11, <1>14
  DEF MatrixInv, ClosedUpTo, OnlyBelow, ClosedBelow, neighbors

LEMMA WriteRowMatrix == ASSUME MatrixInv, NEW w \in Workers, WriteRow(w) PROVE MatrixInv'
<1> DEFINE i == worker[w].index
           row == worker[w].reachable_funcs
<1>1. /\ i \in Nodes /\ i # 0 /\ i \notin todo /\ row \in SUBSET Nodes
      /\ ClosedUpTo(i, row, {}) /\ OnlyBelow(i, row)
  <2>1. worker[w] \in State /\ worker[w] # Idle /\ worker[w].worklist = {}
    BY DEF MatrixInv, WriteRow
  <2>2. row \cup {} = row
    OBVIOUS
  <2> QED
    BY <2>1, <2>2 DEF MatrixInv, State
<1>2. /\ relation_matrix' = [relation_matrix EXCEPT ![i] = row]
      /\ done' = done \cup {i} /\ worker' = [worker EXCEPT ![w] = Idle]
      /\ UNCHANGED <<mode, todo, stack>>
  BY DEF WriteRow, RowAt
<1> HIDE DEF i, row
<1>3. worker' \in [Workers -> State] /\ worker'[w] = Idle /\ \A v \in Workers : v # w => worker'[v] = worker[v]
  BY <1>2, IdleState DEF MatrixInv
<1>4. relation_matrix' \in [Nodes -> SUBSET Nodes] /\ relation_matrix'[i] = row
      /\ \A j \in Nodes : j # i => relation_matrix'[j] = relation_matrix[j]
  BY <1>1, <1>2 DEF MatrixInv
<1>5. \A j \in done' : ClosedUpTo(j, relation_matrix'[j], {}) /\ OnlyBelow(j, relation_matrix'[j])
  BY <1>1, <1>2, <1>4 DEF MatrixInv
<1>6. \A v \in Workers : worker'[v].index \notin todo'
  BY <1>2, <1>3, IdleState, CallGraphAssumption DEF MatrixInv
<1>7. \A v \in Workers : worker'[v].index = 0 => worker'[v] = Idle
  BY <1>3 DEF MatrixInv
<1>8. \A v \in Workers : worker'[v].index # 0
         => ClosedUpTo(worker'[v].index, worker'[v].reachable_funcs, worker'[v].worklist)
  BY <1>3, IdleState DEF MatrixInv
<1>9. \A u, v \in Workers : u # v /\ worker'[u].index # 0 => worker'[u].index # worker'[v].index
  BY <1>3, IdleState DEF MatrixInv
<1>10. \A v \in Workers : worker'[v].index # 0
         => OnlyBelow(worker'[v].index, worker'[v].reachable_funcs \cup worker'[v].worklist)
  BY <1>3, IdleState DEF MatrixInv
<1> QED
  BY <1>1, <1>2, <1>3, <1>4, <1>5, <1>6, <1>7, <1>8, <1>9, <1>10
  DEF MatrixInv, ClosedUpTo, OnlyBelow, ClosedBelow, neighbors

\* The filter once it is ready stays as it is, and the run waits for it.
WaitInv == Len(stack) > 1 => Ready

LEMMA ReadyIsFinal == ASSUME MatrixInv, Ready, NEW w \in Workers PROVE ~Work(w)
<1>1. todo = {} /\ worker[w] = Idle
  BY DEF MatrixInv, Ready
<1> QED
  BY <1>1, IdleState DEF Work, TakeNode, PopNode, WriteRow

LEMMA WorkMatrix == ASSUME MatrixInv, NEW w \in Workers, Work(w) PROVE MatrixInv' /\ UNCHANGED <<mode, stack>>
  BY TakeNodeMatrix, PopNodeMatrix, WriteRowMatrix DEF Work, TakeNode, PopNode, WriteRow

-----------------------------------------------------------------------------
(* The stack.                                                                *)

K == Strategy.k
Lesser(a, b) == IF a <= b THEN a ELSE b
Frame == [func : NodeFunc, ctx : Seq(NodeFunc \X Loc)]
Reached(matrix, f, g) == f = g \/ NodeOf(g) \in matrix[NodeOf(f)]

\* Every frame reaches the ones above it.
Reaching(s, matrix) == \A n \in 1 .. Len(s) : \A m \in 1 .. n : Reached(matrix, s[n].func, s[m].func)
\* Its context is the functions of the k frames below it.
ContextAt(s, k, n) ==
    /\ Len(s[n].ctx) = Lesser(k, Len(s) - n)
    /\ \A i \in 1 .. Len(s[n].ctx) : s[n].ctx[i][1] = s[n + i].func
StackFits(s, k, matrix) ==
    /\ s \in Seq(Frame) /\ Len(s) >= 1
    /\ Reaching(s, matrix)
    /\ \A n \in 1 .. Len(s) : ContextAt(s, k, n)

StackInv == StackFits(stack, K, relation_matrix)

Inv == MatrixInv /\ WaitInv /\ StackInv

LEMMA KType == ASSUME mode \in Modes PROVE K \in Nat /\ K = (IF mode = -1 THEN 0 ELSE mode)
  BY CallGraphAssumption DEF K, Strategy

\* A stack of one frame without a context fits whatever the matrix.
LEMMA OneFrameFits ==
    ASSUME NEW f \in Frame, f.ctx = <<>>, NEW k \in Nat, NEW matrix, NEW s, s = <<f>>
    PROVE  StackFits(s, k, matrix)
<1>1. s \in Seq(Frame) /\ Len(s) = 1 /\ s[1] = f
  OBVIOUS
<1>2. \A n \in 1 .. Len(s) : n = 1
  BY <1>1
<1>3. Lesser(k, 1 - 1) = 0
  BY DEF Lesser
<1>4. ContextAt(s, k, 1)
  BY <1>1, <1>3 DEF ContextAt
<1>5. Reaching(s, matrix)
  BY <1>1, <1>2 DEF Reaching, Reached
<1> QED
  BY <1>1, <1>2, <1>4, <1>5 DEF StackFits

LEMMA ConsFacts ==
    ASSUME NEW S, NEW s \in Seq(S), NEW e \in S, NEW t, t = <<e>> \o s
    PROVE  /\ t \in Seq(S) /\ Len(t) = Len(s) + 1 /\ t[1] = e
           /\ \A n \in 2 .. Len(s) + 1 : t[n] = s[n - 1]
  OBVIOUS

LEMMA TailFacts ==
    ASSUME NEW S, NEW s \in Seq(S), Len(s) > 1, NEW t, t = Tail(s)
    PROVE  /\ t \in Seq(S) /\ Len(t) = Len(s) - 1
           /\ \A n \in 1 .. Len(s) - 1 : t[n] = s[n + 1]
  OBVIOUS

\* What a call does to the stack.
LEMMA CalledFrame ==
    ASSUME mode \in Modes, NEW frame \in Frame, NEW c \in Calls, c.func = frame.func
    PROVE  LET new == CalleeFrame(frame, c)
           IN  /\ new \in Frame /\ new.func = c.callee
               /\ Len(new.ctx) = Lesser(K, Len(frame.ctx) + 1)
               /\ Len(new.ctx) > 0 => new.ctx[1][1] = frame.func
               /\ \A i \in 2 .. Len(new.ctx) : new.ctx[i] = frame.ctx[i - 1]
<1> DEFINE e == <<frame.func, c.loc>>
           old == frame.ctx
           ctx == new_k_limited_context(old, e, K)
<1>0. K \in Nat
  BY KType
<1>1. c.loc \in Loc /\ c.callee \in NodeFunc /\ e \in NodeFunc \X Loc /\ old \in Seq(NodeFunc \X Loc)
  BY CallGraphAssumption DEF Loc, Frame
<1>2. CalleeFrame(frame, c) = [func |-> c.callee, ctx |-> ctx]
  BY DEF CalleeFrame, new_static_call_context, Strategy, SiteElem, K
<1>3. e[1] = frame.func
  OBVIOUS
<1> HIDE DEF e, old
<1>4. /\ ctx \in Seq(NodeFunc \X Loc) /\ Len(ctx) = Lesser(K, Len(old) + 1)
      /\ Len(ctx) > 0 => ctx[1] = e
      /\ \A i \in 2 .. Len(ctx) : ctx[i] = old[i - 1]
  <2>1. CASE K = 0
    BY <1>1, <2>1 DEF new_k_limited_context, Empty, Lesser
  <2>2. CASE K > 0 /\ Len(old) < K
    BY <1>0, <1>1, <2>2 DEF new_k_limited_context, Lesser
  <2>3. CASE K > 0 /\ Len(old) >= K
    <3> DEFINE kept == SubSeq(old, 1, K - 1)
    <3>1. kept \in Seq(NodeFunc \X Loc) /\ Len(kept) = K - 1 /\ \A i \in 1 .. K - 1 : kept[i] = old[i]
      BY <1>0, <1>1, <2>3
    <3>2. ctx = <<e>> \o kept
      BY <1>0, <1>1, <2>3 DEF new_k_limited_context
    <3> HIDE DEF kept, ctx
    <3>3. Len(ctx) = K /\ ctx \in Seq(NodeFunc \X Loc) /\ ctx[1] = e
      BY <1>0, <1>1, <2>3, <3>1, <3>2
    <3>4. \A i \in 2 .. K : ctx[i] = kept[i - 1]
      BY <1>0, <1>1, <2>3, <3>1, <3>2
    <3>5. Lesser(K, Len(old) + 1) = K
      BY <1>0, <1>1, <2>3 DEF Lesser
    <3> QED
      BY <1>0, <3>1, <3>3, <3>4, <3>5
  <2> QED
    BY <1>0, <1>1, <2>1, <2>2, <2>3
<1> HIDE DEF ctx
<1> QED
  BY <1>1, <1>2, <1>3, <1>4 DEF old, Frame

LEMMA CallFits ==
    ASSUME NEW k \in Nat, NEW matrix, NEW s, StackFits(s, k, matrix), NEW new \in Frame,
           \A n \in 1 .. Len(s) : Reached(matrix, s[n].func, new.func),
           Len(new.ctx) = Lesser(k, Len(s[1].ctx) + 1),
           Len(new.ctx) > 0 => new.ctx[1][1] = s[1].func,
           \A i \in 2 .. Len(new.ctx) : new.ctx[i] = s[1].ctx[i - 1],
           NEW t, t = <<new>> \o s
    PROVE  StackFits(t, k, matrix)
<1> DEFINE L == Len(s)
<1>1. s \in Seq(Frame) /\ L \in Nat /\ L >= 1 /\ s[1] \in Frame
  BY DEF StackFits
<1>2. t \in Seq(Frame) /\ Len(t) = L + 1 /\ t[1] = new /\ \A n \in 2 .. L + 1 : t[n] = s[n - 1]
  BY <1>1, ConsFacts
<1>3. ASSUME NEW n \in 1 .. L + 1, NEW m \in 1 .. n PROVE Reached(matrix, t[n].func, t[m].func)
  <2>1. CASE n = 1
    <3>1. m = 1
      BY <2>1
    <3> QED
      BY <2>1, <3>1 DEF Reached
  <2>2. CASE n > 1 /\ m = 1
    <3>1. n - 1 \in 1 .. L /\ t[n] = s[n - 1]
      BY <1>1, <1>2, <2>2
    <3> QED
      BY <1>2, <2>2, <3>1
  <2>3. CASE n > 1 /\ m > 1
    <3>1. n - 1 \in 1 .. L /\ m - 1 \in 1 .. n - 1 /\ n \in 2 .. L + 1 /\ m \in 2 .. L + 1
      BY <1>1, <2>3
    <3>2. t[n] = s[n - 1] /\ t[m] = s[m - 1]
      BY <1>2, <3>1
    <3>3. Reached(matrix, s[n - 1].func, s[m - 1].func)
      BY <3>1 DEF StackFits, Reaching
    <3> QED
      BY <3>2, <3>3
  <2> QED
    BY <1>1, <2>1, <2>2, <2>3
<1>4. Reaching(t, matrix)
  BY <1>2, <1>3 DEF Reaching
<1>5. ASSUME NEW n \in 1 .. L PROVE /\ Len(s[n].ctx) = Lesser(k, L - n) /\ Len(s[n].ctx) \in Nat
                                    /\ \A i \in 1 .. Len(s[n].ctx) : s[n].ctx[i][1] = s[n + i].func
  <2>1. ContextAt(s, k, n)
    BY DEF StackFits
  <2>2. s[n] \in Frame
    BY <1>1
  <2>3. Len(s[n].ctx) \in Nat
    BY <2>2 DEF Frame
  <2> QED
    BY <2>1, <2>3 DEF ContextAt
<1>6. ContextAt(t, k, 1)
  <2>1. Len(s[1].ctx) = Lesser(k, L - 1)
    BY <1>1, <1>5
  <2>2. Len(new.ctx) = Lesser(k, L)
    BY <1>1, <2>1 DEF Lesser
  <2>3. ASSUME NEW i \in 1 .. Len(new.ctx) PROVE new.ctx[i][1] = t[1 + i].func
    <3>1. Len(new.ctx) <= L /\ Len(new.ctx) \in Nat
      BY <1>1, <2>2 DEF Lesser
    <3>2. i \in 1 .. L /\ 1 + i \in 2 .. L + 1 /\ (1 + i) - 1 = i
      BY <1>1, <3>1
    <3>3. t[1 + i] = s[i]
      BY <1>2, <3>2
    <3>4. CASE i = 1
      <4>1. Len(new.ctx) > 0
        BY <3>1, <3>4
      <4> QED
        BY <3>3, <3>4, <4>1
    <3>5. CASE i > 1
      <4>1. i - 1 \in 1 .. Len(s[1].ctx)
        <5>1. i - 1 <= Lesser(k, L - 1)
          BY <1>1, <2>2, <3>1, <3>2 DEF Lesser
        <5>2. Len(s[1].ctx) \in Nat
          BY <1>1, <1>5
        <5> QED
          BY <2>1, <3>2, <3>5, <5>1, <5>2
      <4>2. s[1].ctx[i - 1][1] = s[1 + (i - 1)].func
        BY <1>1, <1>5, <4>1
      <4>3. 1 + (i - 1) = i /\ i \in 2 .. Len(new.ctx)
        BY <3>1, <3>2, <3>5
      <4> QED
        BY <3>3, <4>2, <4>3
    <3> QED
      BY <3>2, <3>4, <3>5
  <2>4. Len(t) - 1 = L
    BY <1>1, <1>2
  <2>5. t[1] = new
    BY <1>2
  <2>6. Len(t[1].ctx) = Lesser(k, Len(t) - 1)
    BY <2>2, <2>4, <2>5
  <2>7. \A i \in 1 .. Len(t[1].ctx) : t[1].ctx[i][1] = t[1 + i].func
    BY <2>3, <2>5
  <2> QED
    BY <2>6, <2>7 DEF ContextAt
<1>7. ASSUME NEW p \in 1 .. L PROVE ContextAt(t, k, p + 1)
  <2>0. p + 1 \in 2 .. L + 1 /\ (p + 1) - 1 = p
    BY <1>1
  <2>1. t[p + 1] = s[p] /\ Len(t) - (p + 1) = L - p
    BY <1>1, <1>2, <2>0
  <2>2. Len(s[p].ctx) = Lesser(k, L - p) /\ Len(s[p].ctx) \in Nat
    BY <1>5
  <2>3. ASSUME NEW i \in 1 .. Len(s[p].ctx) PROVE t[(p + 1) + i] = s[p + i]
    <3>1. Lesser(k, L - p) <= L - p
      BY <1>1 DEF Lesser
    <3>2. (p + 1) + i \in 2 .. L + 1 /\ ((p + 1) + i) - 1 = p + i
      BY <1>1, <2>2, <3>1
    <3> QED
      BY <1>2, <3>2
  <2> QED
    BY <1>5, <2>1, <2>2, <2>3 DEF ContextAt
<1>8. ASSUME NEW n \in 1 .. Len(t) PROVE ContextAt(t, k, n)
  <2>1. n = 1 \/ (n - 1 \in 1 .. L /\ (n - 1) + 1 = n)
    BY <1>1, <1>2
  <2> QED
    BY <1>6, <1>7, <2>1
<1> QED
  BY <1>1, <1>2, <1>4, <1>8 DEF StackFits

LEMMA TailFits ==
    ASSUME NEW k \in Nat, NEW matrix, NEW s, StackFits(s, k, matrix), Len(s) > 1, NEW t, t = Tail(s)
    PROVE  StackFits(t, k, matrix)
<1> DEFINE L == Len(s)
<1>1. s \in Seq(Frame) /\ L \in Nat /\ L > 1
  BY DEF StackFits
<1>2. t \in Seq(Frame) /\ Len(t) = L - 1 /\ \A n \in 1 .. L - 1 : t[n] = s[n + 1]
  BY <1>1, TailFacts
<1>3. Reaching(t, matrix)
  <2> SUFFICES ASSUME NEW n \in 1 .. Len(t), NEW m \in 1 .. n PROVE Reached(matrix, t[n].func, t[m].func)
    BY DEF Reaching
  <2>1. n + 1 \in 1 .. L /\ m + 1 \in 1 .. n + 1 /\ n \in 1 .. L - 1 /\ m \in 1 .. L - 1
    BY <1>1, <1>2
  <2>2. t[n] = s[n + 1] /\ t[m] = s[m + 1]
    BY <1>2, <2>1
  <2>3. Reached(matrix, s[n + 1].func, s[m + 1].func)
    BY <2>1 DEF StackFits, Reaching
  <2> QED
    BY <2>2, <2>3
<1>4. ASSUME NEW n \in 1 .. Len(t) PROVE ContextAt(t, k, n)
  <2>1. n + 1 \in 1 .. L /\ t[n] = s[n + 1] /\ Len(t) - n = L - (n + 1)
    BY <1>1, <1>2
  <2>2. ContextAt(s, k, n + 1)
    BY <2>1 DEF StackFits
  <2>3. s[n + 1] \in Frame
    BY <1>1, <2>1
  <2>4. Len(s[n + 1].ctx) \in Nat /\ Len(s[n + 1].ctx) = Lesser(k, L - (n + 1))
    BY <2>2, <2>3 DEF Frame, ContextAt
  <2>5. ASSUME NEW i \in 1 .. Len(s[n + 1].ctx) PROVE t[n + i] = s[(n + 1) + i]
    <3>1. Lesser(k, L - (n + 1)) <= L - (n + 1)
      BY <1>1, <2>1 DEF Lesser
    <3>2. n + i \in 1 .. L - 1 /\ (n + i) + 1 = (n + 1) + i
      BY <1>1, <2>1, <2>4, <3>1
    <3> QED
      BY <1>2, <3>2
  <2> QED
    BY <2>1, <2>2, <2>4, <2>5 DEF ContextAt
<1> QED
  BY <1>1, <1>2, <1>3, <1>4 DEF StackFits

\* The function that a frame calls is reached from every frame below.
LEMMA CalleeReached ==
    ASSUME MatrixInv, Ready, StackInv, NEW c \in Calls, c.func = stack[1].func, NEW n \in 1 .. Len(stack)
    PROVE  Reached(relation_matrix, stack[n].func, c.callee)
<1> DEFINE i == NodeOf(stack[n].func)
           j == NodeOf(stack[1].func)
<1>0. stack \in Seq(Frame) /\ 1 \in 1 .. Len(stack) /\ 1 \in 1 .. n
  BY DEF StackInv, StackFits
<1>1. stack[n] \in Frame /\ stack[1] \in Frame
  BY <1>0
<1>2. stack[n].func \in NodeFunc /\ stack[1].func \in NodeFunc
  BY <1>1 DEF Frame
<1>3. i \in Nodes /\ i \in done /\ j \in Nodes /\ Funcs[j] = stack[1].func
  BY <1>2, NodeOfFunc DEF Ready
<1>4. NodeOf(c.callee) \in neighbors(j)
  BY <1>3 DEF neighbors
<1>5. ClosedUpTo(i, relation_matrix[i], {})
  BY <1>3 DEF MatrixInv
<1>6. Reached(relation_matrix, stack[n].func, stack[1].func)
  BY <1>0 DEF StackInv, StackFits, Reaching
<1>7. i = j \/ j \in relation_matrix[i]
  BY <1>6 DEF Reached
<1>8. NodeOf(c.callee) \in relation_matrix[i]
  BY <1>4, <1>5, <1>7 DEF ClosedUpTo
<1> QED
  BY <1>8 DEF Reached

-----------------------------------------------------------------------------
(* The steps.                                                                *)

LEMMA WaitingStack ==
    ASSUME Inv, ~Ready PROVE Len(stack) = 1 /\ \A matrix : StackFits(stack, K, matrix)
<1>0. stack \in Seq(Frame) /\ Len(stack) >= 1 /\ ~(Len(stack) > 1)
  BY DEF Inv, WaitInv, StackInv, StackFits
<1>1. stack \in Seq(Frame) /\ Len(stack) = 1
  <2> DEFINE L == Len(stack)
  <2>1. L \in Nat /\ L >= 1 /\ ~(L > 1)
    BY <1>0
  <2> HIDE DEF L
  <2>2. L = 1
    BY <2>1
  <2> QED
    BY <1>0, <2>2 DEF L
<1>2. K \in Nat
  BY KType DEF Inv, MatrixInv
<1>3. stack = <<stack[1]>> /\ stack[1] \in Frame
  BY <1>1
<1>4. stack[1].ctx = <<>>
  <2>1. ContextAt(stack, K, 1)
    BY <1>1 DEF Inv, StackInv, StackFits
  <2>2. Len(stack[1].ctx) = 0
    BY <1>1, <1>2, <2>1 DEF ContextAt, Lesser
  <2>3. stack[1].ctx \in Seq(NodeFunc \X Loc)
    BY <1>3 DEF Frame
  <2> QED
    BY <2>2, <2>3
<1> QED
  BY <1>1, <1>2, <1>3, <1>4, OneFrameFits

LEMMA InitInv == FilterInit => Inv
<1> SUFFICES ASSUME FilterInit PROVE Inv
  OBVIOUS
<1> DEFINE f == [func |-> Main, ctx |-> <<>>]
<1>1. f \in Frame /\ f.ctx = <<>>
  BY CallGraphAssumption DEF Frame
<1>2. stack = <<f>>
  BY DEF FilterInit, Empty
<1>3. K \in Nat
  BY KType DEF FilterInit
<1> HIDE DEF f
<1>4. StackFits(stack, K, relation_matrix)
  BY <1>1, <1>2, <1>3, OneFrameFits
<1>5. Len(stack) = 1
  BY <1>2
<1> QED
  BY <1>4, <1>5, InitMatrix DEF Inv, StackInv, WaitInv

LEMMA StepInv == Inv /\ [FilterNext]_filterVars => Inv'
<1> SUFFICES ASSUME Inv, [FilterNext]_filterVars PROVE Inv'
  OBVIOUS
<1>0. K \in Nat
  BY KType DEF Inv, MatrixInv
<1>1. ASSUME NEW w \in Workers, Work(w) PROVE Inv'
  <2>1. MatrixInv' /\ UNCHANGED <<mode, stack>>
    BY <1>1, WorkMatrix DEF Inv
  <2>2. ~Ready
    BY <1>1, ReadyIsFinal DEF Inv
  <2>3. Len(stack) = 1 /\ \A matrix : StackFits(stack, K, matrix)
    BY <2>2, WaitingStack
  <2>4. K' = K
    BY <2>1 DEF K, Strategy
  <2>5. StackFits(stack', K', relation_matrix')
    BY <2>1, <2>3, <2>4
  <2>6. WaitInv'
    BY <2>1, <2>3 DEF WaitInv
  <2> QED
    BY <2>1, <2>5, <2>6 DEF Inv, StackInv
<1>2. ASSUME UNCHANGED <<mode, todo, worker, relation_matrix, done>>
      PROVE  MatrixInv' /\ Ready' = Ready /\ K' = K
  BY <1>2 DEF Inv, MatrixInv, Ready, K, Strategy, ClosedUpTo, neighbors
<1>3. CASE RunCall
  <2>1. PICK c \in Calls : c.func = stack[1].func /\ stack' = <<CalleeFrame(stack[1], c)>> \o stack
    BY <1>3 DEF RunCall
  <2>2. Ready /\ UNCHANGED <<mode, todo, worker, relation_matrix, done>>
    BY <1>3 DEF RunCall
  <2> DEFINE new == CalleeFrame(stack[1], c)
  <2>3. stack[1] \in Frame
    BY DEF Inv, StackInv, StackFits
  <2>4. /\ new \in Frame /\ new.func = c.callee
        /\ Len(new.ctx) = Lesser(K, Len(stack[1].ctx) + 1)
        /\ Len(new.ctx) > 0 => new.ctx[1][1] = stack[1].func
        /\ \A i \in 2 .. Len(new.ctx) : new.ctx[i] = stack[1].ctx[i - 1]
    BY <2>1, <2>3, CalledFrame DEF Inv, MatrixInv
  <2> HIDE DEF new
  <2>5. \A n \in 1 .. Len(stack) : Reached(relation_matrix, stack[n].func, new.func)
    BY <2>1, <2>2, <2>4, CalleeReached DEF Inv
  <2>6. StackFits(stack, K, relation_matrix)
    BY DEF Inv, StackInv
  <2>7. stack' = <<new>> \o stack
    BY <2>1 DEF new
  <2>8. StackFits(stack', K, relation_matrix)
    BY <1>0, <2>4, <2>5, <2>6, <2>7, CallFits
  <2>9. StackInv'
    BY <1>2, <2>2, <2>8 DEF StackInv
  <2>10. WaitInv'
    BY <1>2, <2>2 DEF WaitInv
  <2> QED
    BY <1>2, <2>2, <2>9, <2>10 DEF Inv
<1>4. CASE RunReturn
  <2>1. Ready /\ Len(stack) > 1 /\ stack' = Tail(stack) /\ UNCHANGED <<mode, todo, worker, relation_matrix, done>>
    BY <1>4 DEF RunReturn
  <2>2. StackFits(stack, K, relation_matrix)
    BY DEF Inv, StackInv
  <2>3. StackFits(stack', K, relation_matrix)
    BY <1>0, <2>1, <2>2, TailFits
  <2>4. StackInv'
    BY <1>2, <2>1, <2>3 DEF StackInv
  <2>5. WaitInv'
    BY <1>2, <2>1 DEF WaitInv
  <2> QED
    BY <1>2, <2>1, <2>4, <2>5 DEF Inv
<1>5. CASE UNCHANGED filterVars
  <2>1. stack' = stack /\ UNCHANGED <<mode, todo, worker, relation_matrix, done>>
    BY <1>5 DEF filterVars
  <2>2. StackInv' /\ WaitInv'
    BY <1>2, <2>1 DEF Inv, StackInv, WaitInv
  <2> QED
    BY <1>2, <2>1, <2>2 DEF Inv
<1> QED
  BY <1>1, <1>3, <1>4, <1>5 DEF FilterNext

-----------------------------------------------------------------------------
(* The queries.                                                              *)

LEMMA ChainFacts ==
    ASSUME NEW frame \in Frame
    PROVE  LET chain == CallChain(CSFunc(frame))
           IN  /\ chain \in Seq(NodeFunc) /\ Len(chain) = Len(frame.ctx) + 1 /\ chain[1] = frame.func
               /\ \A i \in 2 .. Len(chain) : chain[i] = frame.ctx[i - 1][1]
<1> DEFINE ctx == frame.ctx
           q == [i \in DOMAIN ctx |-> ctx[i][1]]
<1>1. ctx \in Seq(NodeFunc \X Loc) /\ frame.func \in NodeFunc
  BY DEF Frame
<1> HIDE DEF ctx
<1>2. q \in Seq(NodeFunc) /\ Len(q) = Len(ctx) /\ \A i \in 1 .. Len(ctx) : q[i] = ctx[i][1]
  BY <1>1
<1>3. CallChain(CSFunc(frame)) = <<frame.func>> \o q
  BY DEF CallChain, CSFunc, ctx
<1> HIDE DEF q
<1>4. /\ CallChain(CSFunc(frame)) \in Seq(NodeFunc) /\ Len(CallChain(CSFunc(frame))) = Len(q) + 1
      /\ CallChain(CSFunc(frame))[1] = frame.func
      /\ \A n \in 2 .. Len(q) + 1 : CallChain(CSFunc(frame))[n] = q[n - 1]
  BY <1>1, <1>2, <1>3, ConsFacts
<1>5. \A n \in 2 .. Len(q) + 1 : q[n - 1] = ctx[n - 1][1]
  BY <1>1, <1>2
<1> QED
  BY <1>2, <1>4, <1>5 DEF ctx

\* The call chain of a frame is the functions on the stack from it on.
LEMMA ChainIsStack ==
    ASSUME Inv, NEW n \in 1 .. Len(stack)
    PROVE  LET chain == CallChain(CSFunc(stack[n]))
           IN  /\ chain \in Seq(NodeFunc) /\ Len(chain) = Lesser(K, Len(stack) - n) + 1
               /\ \A i \in 1 .. Len(chain) : chain[i] = stack[n + i - 1].func
<1> DEFINE chain == CallChain(CSFunc(stack[n]))
           ctx == stack[n].ctx
<1>1. stack[n] \in Frame /\ ContextAt(stack, K, n)
  BY DEF Inv, StackInv, StackFits
<1>2. /\ chain \in Seq(NodeFunc) /\ Len(chain) = Len(ctx) + 1 /\ chain[1] = stack[n].func
      /\ \A i \in 2 .. Len(chain) : chain[i] = ctx[i - 1][1]
  BY <1>1, ChainFacts
<1>3. ctx \in Seq(NodeFunc \X Loc)
  BY <1>1 DEF Frame
<1>4. Len(ctx) = Lesser(K, Len(stack) - n) /\ \A i \in 1 .. Len(ctx) : ctx[i][1] = stack[n + i].func
  BY <1>1 DEF ContextAt
<1> HIDE DEF chain, ctx
<1>5. ASSUME NEW i \in 1 .. Len(chain) PROVE chain[i] = stack[n + i - 1].func
  <2>1. CASE i = 1
    <3>1. n + i - 1 = n
      BY <2>1
    <3> QED
      BY <1>2, <2>1, <3>1
  <2>2. CASE i > 1
    <3>1. i \in 2 .. Len(chain) /\ i - 1 \in 1 .. Len(ctx) /\ n + (i - 1) = n + i - 1
      BY <1>2, <1>3, <2>2
    <3> QED
      BY <1>2, <1>4, <3>1
  <2> QED
    BY <1>2, <2>1, <2>2
<1> QED
  BY <1>2, <1>4, <1>5 DEF chain

\* Two chains that read the same stack overlap.
LEMMA ChainsOverlap ==
    ASSUME NEW S, NEW v1 \in Seq(S), NEW v2 \in Seq(S), NEW n \in Nat, n >= 1, n <= Len(v1), Len(v1) - n + 1 <= Len(v2),
           \A i \in 1 .. Len(v1) - n + 1 : v1[n + i - 1] = v2[i]
    PROVE  match_suffix_and_prefix(v1, v2)
<1> DEFINE i == Len(v1) - n + 1
           a == SubSeq(v1, Len(v1) - i + 1, Len(v1))
           b == SubSeq(v2, 1, i)
<1>1. i \in Nat /\ i >= 1 /\ i <= Len(v1) /\ i <= Len(v2) /\ Len(v1) - i + 1 = n
  OBVIOUS
<1>2. a \in Seq(S) /\ Len(a) = i /\ \A j \in 1 .. i : a[j] = v1[n + j - 1]
  BY <1>1
<1>3. b \in Seq(S) /\ Len(b) = i /\ \A j \in 1 .. i : b[j] = v2[j]
  BY <1>1
<1>4. \A j \in 1 .. i : v1[n + j - 1] = v2[j]
  OBVIOUS
<1> HIDE DEF i
<1>5. a = b
  <2> HIDE DEF a, b
  <2>1. \A j \in 1 .. i : a[j] = b[j]
    BY <1>2, <1>3, <1>4
  <2> QED
    BY <1>2, <1>3, <2>1
<1>6. i \in 1 .. (IF Len(v1) < Len(v2) THEN Len(v1) ELSE Len(v2))
  BY <1>1
<1> QED
  BY <1>5, <1>6 DEF match_suffix_and_prefix

LEMMA RelatedWhenReached ==
    ASSUME NEW f \in NodeFunc, NEW g \in NodeFunc, Reached(relation_matrix, f, g)
    PROVE  NodesRelated(f, g) = "yes"
  BY NodeOfFunc DEF NodesRelated, Reached

\* Every frame passes the filter in the frame on top.
LEMMA FrameKept ==
    ASSUME Inv, NEW n \in 1 .. Len(stack)
    PROVE  is_reachable_from(CSFunc(stack[1]), CSFunc(stack[n])) = "yes"
<1> DEFINE L == Len(stack)
           v1 == CallChain(CSFunc(stack[1]))
           v2 == CallChain(CSFunc(stack[n]))
           p == Lesser(K, L - 1) + 1
<1>0. stack \in Seq(Frame) /\ L \in Nat /\ L >= 1 /\ K \in Nat
  BY KType DEF Inv, MatrixInv, StackInv, StackFits
<1>1. \A m \in 1 .. L : stack[m] \in Frame /\ stack[m].func \in NodeFunc /\ stack[m].ctx \in Seq(NodeFunc \X Loc)
  <2>1. \A m \in 1 .. L : stack[m] \in Frame
    BY <1>0
  <2> QED
    BY <2>1 DEF Frame
<1>2. v1 \in Seq(NodeFunc) /\ Len(v1) = p /\ \A i \in 1 .. Len(v1) : v1[i] = stack[1 + i - 1].func
  BY <1>0, ChainIsStack
<1>3. v2 \in Seq(NodeFunc) /\ Len(v2) = Lesser(K, L - n) + 1 /\ \A i \in 1 .. Len(v2) : v2[i] = stack[n + i - 1].func
  BY ChainIsStack
<1>4. \A m \in 1 .. L : \A i \in 1 .. m : Reached(relation_matrix, stack[m].func, stack[i].func)
  BY DEF Inv, StackInv, StackFits, Reaching
<1>5. p \in 1 .. L
  BY <1>0 DEF Lesser
<1>6. CSFunc(stack[1])[1] = stack[1].func /\ CSFunc(stack[n])[1] = stack[n].func /\ CSFunc(stack[n])[2] = stack[n].ctx
  BY DEF CSFunc
<1> HIDE DEF p, v1, v2
<1>7. NodesRelated(stack[n].func, stack[1].func) = "yes"
  <2>1. Reached(relation_matrix, stack[n].func, stack[1].func)
    BY <1>0, <1>4
  <2> QED
    BY <1>0, <1>1, <2>1, RelatedWhenReached
<1>8. CASE n >= p
  <2>1. Last(v1) = stack[p].func
    BY <1>2, <1>5 DEF Last
  <2>2. Reached(relation_matrix, stack[n].func, stack[p].func)
    BY <1>4, <1>5, <1>8
  <2>3. NodesRelated(stack[n].func, Last(v1)) = "yes"
    BY <1>1, <1>5, <2>1, <2>2, RelatedWhenReached
  <2> QED
    BY <1>6, <1>7, <2>3 DEF is_reachable_from, naive_reachability_relation, v1
<1>9. CASE n < p
  <2>1. n \in Nat /\ n >= 1 /\ n <= Len(v1) /\ Len(v1) - n + 1 <= Len(v2) /\ Lesser(K, L - n) > 0
    BY <1>0, <1>2, <1>3, <1>9 DEF Lesser, p
  <2>2. ASSUME NEW i \in 1 .. Len(v1) - n + 1 PROVE v1[n + i - 1] = v2[i]
    <3>1. n + i - 1 \in 1 .. Len(v1) /\ i \in 1 .. Len(v2) /\ 1 + (n + i - 1) - 1 = n + i - 1
      BY <1>2, <1>3, <2>1
    <3>2. v1[n + i - 1] = stack[1 + (n + i - 1) - 1].func
      BY <1>2, <3>1
    <3> QED
      BY <1>3, <3>1, <3>2
  <2>3. match_suffix_and_prefix(v1, v2)
    BY <1>2, <1>3, <2>1, <2>2, ChainsOverlap
  <2>4. stack[n].ctx # Empty
    <3>1. ContextAt(stack, K, n)
      BY DEF Inv, StackInv, StackFits
    <3> QED
      BY <2>1, <3>1 DEF ContextAt, Empty
  <2> QED
    BY <1>6, <1>7, <2>3, <2>4 DEF is_reachable_from, naive_reachability_relation, v1, v2
<1> QED
  BY <1>5, <1>8, <1>9

LEMMA InvAliveKept ==
    ASSUME \A g \in DOMAIN Initialiser : Initialiser[g] \in {"promoted", "const"}
    PROVE  Inv => AliveKept
<1> SUFFICES ASSUME Inv PROVE AliveKept
  OBVIOUS
<1>1. DOMAIN stack = 1 .. Len(stack)
  BY DEF Inv, StackInv, StackFits
<1>2. \A n \in DOMAIN stack : is_potentially_alive(CSFunc(stack[1]), CSFunc(stack[n])) = "yes"
  BY <1>1, FrameKept DEF is_potentially_alive
<1>3. \A g \in DOMAIN Initialiser : is_potentially_alive(CSFunc(stack[1]), <<g, Empty>>) = "yes"
  BY DEF is_potentially_alive
<1> QED
  BY <1>2, <1>3 DEF AliveKept

\* Once the matrix is computed no local of a function on the stack is cut off in
\* the function on top, for every call graph, recursive ones too, every number
\* of workers, every limit of contexts and every depth, provided that the bodies
\* without callers are promoteds and constants (stack_filtering.rs:278-312,
\* 360-421).
THEOREM AliveKeptHolds ==
    ASSUME \A g \in DOMAIN Initialiser : Initialiser[g] \in {"promoted", "const"}
    PROVE  FilterSpec => []AliveKept
  BY InitInv, StepInv, InvAliveKept, PTL DEF FilterSpec

-----------------------------------------------------------------------------
(* The rows.                                                                 *)

LEMMA RowIsBelow ==
    ASSUME NEW i \in Nodes, NEW row \in SUBSET Nodes, ClosedUpTo(i, row, {}), OnlyBelow(i, row)
    PROVE  row = Below[i]
<1>1. ClosedBelow(i, row)
  BY DEF ClosedUpTo, ClosedBelow
<1>2. row \subseteq Below[i]
  BY DEF OnlyBelow, Below
<1>3. Below[i] \subseteq row
  BY <1>1 DEF Below
<1> QED
  BY <1>2, <1>3

LEMMA InvMatrixExact == MatrixInv => MatrixExact
<1> SUFFICES ASSUME MatrixInv PROVE MatrixExact
  OBVIOUS
<1>1. \A w \in Workers : worker[w].index \in (Nodes \cup {0}) \ todo
  BY DEF MatrixInv, State
<1>2. \A v, w \in Workers : v # w /\ worker[v] # Idle => worker[v].index # worker[w].index
  BY DEF MatrixInv
<1>3. FilterTypeOK
  BY <1>1, <1>2 DEF MatrixInv, FilterTypeOK
<1>4. ASSUME NEW i \in done PROVE relation_matrix[i] = Below[i]
  <2>1. i \in Nodes /\ relation_matrix[i] \in SUBSET Nodes
    BY DEF MatrixInv
  <2>2. ClosedUpTo(i, relation_matrix[i], {}) /\ OnlyBelow(i, relation_matrix[i])
    BY DEF MatrixInv
  <2> QED
    BY <2>1, <2>2, RowIsBelow
<1> QED
  BY <1>3, <1>4 DEF MatrixExact, RowsExact

\* Two workers never compute the same row, and every row that is written is the
\* functions below its node, for every call graph, every number of workers and
\* every order in which they take nodes and finish (stack_filtering.rs:164-196).
THEOREM MatrixIsExact == FilterSpec => []MatrixExact
<1>1. Inv => MatrixExact
  BY InvMatrixExact DEF Inv
<1> QED
  BY <1>1, InitInv, StepInv, PTL DEF FilterSpec

-----------------------------------------------------------------------------
(* The filter with contexts.                                                 *)

\* With the rows written, reaching is transitive and calls are steps of it.
LEMMA ReachedTransitive ==
    ASSUME MatrixInv, Ready, NEW f \in NodeFunc, NEW g \in NodeFunc, NEW h \in NodeFunc,
           Reached(relation_matrix, f, g), Reached(relation_matrix, g, h)
    PROVE  Reached(relation_matrix, f, h)
<1> DEFINE i == NodeOf(f)
           j == NodeOf(g)
<1>1. i \in Nodes /\ i \in done /\ j \in Nodes /\ j \in done
  BY NodeOfFunc DEF Ready
<1>2. CASE f # g /\ g # h
  <2>1. j \in relation_matrix[i] /\ NodeOf(h) \in relation_matrix[j]
    BY <1>2 DEF Reached
  <2>2. ClosedUpTo(i, relation_matrix[i], {}) /\ OnlyBelow(j, relation_matrix[j])
    BY <1>1 DEF MatrixInv
  <2>3. relation_matrix[i] \in SUBSET Nodes /\ ClosedBelow(j, relation_matrix[i])
    BY <1>1, <2>1, <2>2 DEF MatrixInv, ClosedUpTo, ClosedBelow
  <2>4. NodeOf(h) \in relation_matrix[i]
    BY <2>1, <2>2, <2>3 DEF OnlyBelow
  <2> QED
    BY <2>4 DEF Reached
<1> QED
  BY <1>2 DEF Reached

LEMMA CallReached ==
    ASSUME MatrixInv, Ready, NEW c \in Calls PROVE Reached(relation_matrix, c.func, c.callee)
<1> DEFINE i == NodeOf(c.func)
<1>1. i \in Nodes /\ i \in done /\ Funcs[i] = c.func
  BY CallGraphAssumption, NodeOfFunc DEF Ready
<1>2. NodeOf(c.callee) \in neighbors(i)
  BY <1>1 DEF neighbors
<1>3. ClosedUpTo(i, relation_matrix[i], {})
  BY <1>1 DEF MatrixInv
<1> QED
  BY <1>2, <1>3 DEF ClosedUpTo, Reached

LEMMA LeastNumber ==
    ASSUME NEW T, T \subseteq Nat, T # {} PROVE \E x \in T : \A y \in T : x <= y
<1> DEFINE R == {ss \in Nat \X Nat : ss[1] < ss[2]}
<1>1. IsWellFoundedOn(R, Nat)
  BY NatLessThanWellFounded, Zenon DEF OpToRel
<1> HIDE DEF R
<1>2. PICK x \in T : \A y \in T : ~(<<y, x>> \in R)
  BY <1>1, WFMin
<1>3. \A y \in T : ~(y < x)
  BY <1>2 DEF R
<1> QED
  BY <1>3

\* Induction over a set of numbers.
LEMMA Induct ==
    ASSUME NEW S, 0 \in S, \A n \in Nat : n \in S => n + 1 \in S PROVE Nat \subseteq S
<1> DEFINE T == Nat \ S
<1>1. ASSUME T # {} PROVE FALSE
  <2>1. PICK x \in T : \A y \in T : x <= y
    BY <1>1, LeastNumber
  <2>2. x # 0 /\ x - 1 \in Nat
    OBVIOUS
  <2>3. x - 1 \in S
    BY <2>1, <2>2
  <2> QED
    BY <2>1, <2>2, <2>3
<1> QED
  BY <1>1

LEMMA ContextualFacts ==
    ASSUME NEW f \in Contextual
    PROVE  LET chain == CallChain(f)
           IN  /\ chain \in Seq(NodeFunc) /\ Len(chain) >= 1 /\ chain[1] = f[1] /\ f[1] \in NodeFunc
               /\ \A i \in 1 .. Len(chain) - 1 :
                     \E c \in Calls : c.func = chain[i + 1] /\ c.callee = chain[i]
<1> DEFINE sites == {<<c.func, c.loc>> : c \in Calls}
           ctx == f[2]
           q == [i \in DOMAIN ctx |-> ctx[i][1]]
           chain == CallChain(f)
<1>1. /\ f \in ToSet(Funcs) \X UNION {[1 .. j -> sites] : j \in 0 .. Strategy.k}
      /\ \A i \in DOMAIN f[2] : CallChain(f)[i] \in CalledAt(f[2][i])
  BY DEF Contextual
<1>2. f[1] \in NodeFunc
  BY <1>1 DEF NodeFunc, ToSet, Nodes
<1>3. PICK j \in Nat : ctx \in [1 .. j -> sites]
  BY <1>1
<1>4. \A s \in sites : s[1] \in NodeFunc
  BY CallGraphAssumption
<1> HIDE DEF sites, ctx
<1>5. q \in Seq(NodeFunc) /\ Len(q) = j /\ \A i \in 1 .. j : q[i] = ctx[i][1]
  BY <1>3, <1>4
<1>6. chain = <<f[1]>> \o q
  BY DEF CallChain, ctx
<1> HIDE DEF q, chain
<1>7. /\ chain \in Seq(NodeFunc) /\ Len(chain) = j + 1 /\ chain[1] = f[1]
      /\ \A n \in 2 .. j + 1 : chain[n] = q[n - 1]
  BY <1>2, <1>5, <1>6, ConsFacts
<1>8. ASSUME NEW i \in 1 .. j PROVE \E c \in Calls : c.func = chain[i + 1] /\ c.callee = chain[i]
  <2>1. chain[i] \in CalledAt(ctx[i]) /\ chain[i + 1] = ctx[i][1]
    <3>1. i + 1 \in 2 .. j + 1 /\ (i + 1) - 1 = i /\ i \in DOMAIN ctx
      BY <1>3
    <3> QED
      BY <1>1, <1>5, <1>7, <3>1 DEF ctx, chain
  <2>2. PICK c \in Calls : <<c.func, c.loc>> = ctx[i] /\ c.callee = chain[i]
    BY <2>1 DEF CalledAt
  <2> QED
    BY <2>1, <2>2
<1> QED
  BY <1>2, <1>7, <1>8 DEF chain

\* Every function of a call chain reaches the first one.
LEMMA ChainReaches ==
    ASSUME MatrixInv, Ready, NEW f \in Contextual, NEW m \in 1 .. Len(CallChain(f))
    PROVE  Reached(relation_matrix, CallChain(f)[m], f[1])
<1> DEFINE chain == CallChain(f)
           S == {n \in Nat : n + 1 \in 1 .. Len(chain) => Reached(relation_matrix, chain[n + 1], f[1])}
<1>1. /\ chain \in Seq(NodeFunc) /\ Len(chain) >= 1 /\ chain[1] = f[1] /\ f[1] \in NodeFunc
      /\ \A i \in 1 .. Len(chain) - 1 : \E c \in Calls : c.func = chain[i + 1] /\ c.callee = chain[i]
  BY ContextualFacts
<1> HIDE DEF chain
<1>2. 0 \in S
  BY <1>1 DEF Reached
<1>3. ASSUME NEW n \in Nat, n \in S PROVE n + 1 \in S
  <2> SUFFICES ASSUME (n + 1) + 1 \in 1 .. Len(chain)
               PROVE  Reached(relation_matrix, chain[(n + 1) + 1], f[1])
    OBVIOUS
  <2>1. n + 1 \in 1 .. Len(chain) - 1 /\ n + 1 \in 1 .. Len(chain)
    BY <1>1
  <2>2. Reached(relation_matrix, chain[n + 1], f[1])
    BY <1>3, <2>1
  <2>3. PICK c \in Calls : c.func = chain[(n + 1) + 1] /\ c.callee = chain[n + 1]
    BY <1>1, <2>1
  <2>4. Reached(relation_matrix, chain[(n + 1) + 1], chain[n + 1])
    BY <2>3, CallReached
  <2>5. chain[(n + 1) + 1] \in NodeFunc /\ chain[n + 1] \in NodeFunc
    BY <1>1, <2>1
  <2> QED
    BY <1>1, <2>2, <2>4, <2>5, ReachedTransitive
<1> HIDE DEF S
<1>4. Nat \subseteq S
  BY <1>2, <1>3, Induct
<1>5. m - 1 \in Nat /\ (m - 1) + 1 = m /\ m \in 1 .. Len(chain)
  BY <1>1 DEF chain
<1>6. m - 1 \in S
  BY <1>4, <1>5
<1> QED
  BY <1>5, <1>6 DEF S, chain

LEMMA ReachedWhenRelated ==
    ASSUME NEW f \in NodeFunc, NEW g \in NodeFunc, NodesRelated(f, g) = "yes"
    PROVE  Reached(relation_matrix, f, g)
  BY NodeOfFunc DEF NodesRelated, Reached

\* An overlap begins at the function that owns the local.
LEMMA OverlapBegins ==
    ASSUME NEW S, NEW v1 \in Seq(S), NEW v2 \in Seq(S), match_suffix_and_prefix(v1, v2)
    PROVE  \E m \in 1 .. Len(v1) : v1[m] = v2[1]
<1>1. PICK i \in 1 .. (IF Len(v1) < Len(v2) THEN Len(v1) ELSE Len(v2)) :
         SubSeq(v1, Len(v1) - i + 1, Len(v1)) = SubSeq(v2, 1, i)
  BY DEF match_suffix_and_prefix
<1> DEFINE m == Len(v1) - i + 1
           a == SubSeq(v1, m, Len(v1))
           b == SubSeq(v2, 1, i)
<1>2. i \in Nat /\ i >= 1 /\ i <= Len(v1) /\ i <= Len(v2) /\ m \in 1 .. Len(v1)
  OBVIOUS
<1>3. a[1] = v1[m]
  BY <1>2
<1>4. b[1] = v2[1]
  BY <1>2
<1> QED
  BY <1>1, <1>2, <1>3, <1>4

LEMMA InvContextsRefine == MatrixInv => ContextsRefine
<1> SUFFICES ASSUME MatrixInv, Ready, NEW to \in Contextual, NEW from \in Contextual,
                    is_reachable_from(to, from) = "yes"
             PROVE  naive_reachability_relation(from, to) = "yes"
  BY DEF ContextsRefine
<1> DEFINE v1 == CallChain(to)
           v2 == CallChain(from)
<1>1. v1 \in Seq(NodeFunc) /\ Len(v1) >= 1 /\ v1[1] = to[1] /\ to[1] \in NodeFunc
  BY ContextualFacts
<1>2. v2 \in Seq(NodeFunc) /\ Len(v2) >= 1 /\ v2[1] = from[1] /\ from[1] \in NodeFunc
  BY ContextualFacts
<1>3. \A m \in 1 .. Len(v1) : Reached(relation_matrix, v1[m], to[1])
  BY ChainReaches
<1>4. /\ mode # -1 => \/ match_suffix_and_prefix(v1, v2)
                      \/ NodesRelated(from[1], Last(v1)) = "yes"
      /\ mode = -1 => naive_reachability_relation(from, to) = "yes"
  BY DEF is_reachable_from
<1> HIDE DEF v1, v2
<1>5. CASE match_suffix_and_prefix(v1, v2)
  <2>1. PICK m \in 1 .. Len(v1) : v1[m] = v2[1]
    BY <1>1, <1>2, <1>5, OverlapBegins
  <2>2. Reached(relation_matrix, from[1], to[1])
    BY <1>2, <1>3, <2>1
  <2> QED
    BY <1>1, <1>2, <2>2, RelatedWhenReached DEF naive_reachability_relation
<1>6. CASE NodesRelated(from[1], Last(v1)) = "yes"
  <2>1. Len(v1) \in 1 .. Len(v1) /\ Last(v1) = v1[Len(v1)] /\ Last(v1) \in NodeFunc
    BY <1>1 DEF Last
  <2>2. Reached(relation_matrix, from[1], Last(v1)) /\ Reached(relation_matrix, Last(v1), to[1])
    BY <1>2, <1>3, <1>6, <2>1, ReachedWhenRelated
  <2>3. Reached(relation_matrix, from[1], to[1])
    BY <1>1, <1>2, <2>1, <2>2, ReachedTransitive
  <2> QED
    BY <1>1, <1>2, <2>3, RelatedWhenReached DEF naive_reachability_relation
<1> QED
  BY <1>4, <1>5, <1>6

\* Whatever passes the filter with contexts passes the one without, for every
\* call graph and every limit of contexts: the functions of a call chain reach
\* the one it belongs to, and so does each function of an overlap
\* (stack_filtering.rs:360-421).
THEOREM ContextsRefineHolds == FilterSpec => []ContextsRefine
<1>1. Inv => ContextsRefine
  BY InvContextsRefine DEF Inv
<1> QED
  BY <1>1, InitInv, StepInv, PTL DEF FilterSpec
=============================================================================
