------------------------------- MODULE MCParts -------------------------------
(***************************************************************************)
(* An instance of the parts of the analyses that stand on their own: the      *)
(* chunked queue (ChunkedQueue), hybrid points-to sets (S), the difference     *)
(* points-to data (D), the basic points-to data (B), the rapid type analysis   *)
(* (RapidTypeFixpoint) and the stack filter (StackFilter).  They share no      *)
(* state, so each behaviour is about one of them and the others do not begin.  *)
(***************************************************************************)
EXTENDS ChunkedQueue, MCRapidType, MCStackFilter, TLC

CONSTANTS Slot, Largest, WORD_BITS, SMALL_SET_CAPACITY, UsizeRange,
          Key, Data

VARIABLES part,                                           \* which one
          pts, set_changed, intersected,                  \* of S
          diff_pts_map, propa_pts_map, diff_changed,      \* of D
          pts_map, rev_pts_map, base_changed              \* of B

S == INSTANCE PointsToSets WITH changed <- set_changed
D == INSTANCE DiffPTData WITH changed <- diff_changed
B == INSTANCE BasePTData WITH changed <- base_changed

ASSUME SizesHold == S!SizesAssumption

setVars == <<pts, set_changed, intersected>>
diffVars == <<diff_pts_map, propa_pts_map, diff_changed>>
baseVars == <<pts_map, rev_pts_map, base_changed>>
dataVars == <<vars, setVars, diffVars, baseVars>>
partVars == <<part, dataVars, rtaVars, filterVars>>

PartsInit ==
    /\ part \in {"queue", "sets", "diff", "base", "rta", "filter"}
    /\ Init /\ S!Init /\ D!Init /\ B!Init
    /\ RtaInit /\ (part # "rta" => reach_funcs = {CHOOSE e \in Entries : TRUE})
    /\ FilterInit /\ (part # "filter" => mode = -1)

RtaStep == part = "rta" /\ Progress /\ UNCHANGED <<part, dataVars, filterVars>>
WorkStep(w) == part = "filter" /\ Work(w) /\ UNCHANGED <<part, dataVars, rtaVars>>

DataNext ==
    \/ part = "queue" /\ Next /\ UNCHANGED <<setVars, diffVars, baseVars>>
    \/ part = "sets" /\ S!Next /\ UNCHANGED <<vars, diffVars, baseVars>>
    \/ part = "diff" /\ D!Next /\ UNCHANGED <<vars, setVars, baseVars>>
    \/ part = "base" /\ B!Next /\ UNCHANGED <<vars, setVars, diffVars>>

PartsNext ==
    \/ DataNext /\ UNCHANGED <<part, rtaVars, filterVars>>
    \/ RtaStep
    \/ part = "rta" /\ AnalysisDone /\ UNCHANGED <<part, dataVars, filterVars>>
    \/ \E w \in Workers : WorkStep(w)
    \/ part = "filter" /\ (RunCall \/ RunReturn) /\ UNCHANGED <<part, dataVars, rtaVars>>

\* The fairness of each part: its iterators, its one thread, its pool.
PartsSpec ==
    /\ PartsInit /\ [][PartsNext]_partVars
    /\ Fairness
    /\ WF_partVars(RtaStep)
    /\ \A w \in Workers : WF_partVars(WorkStep(w))

-----------------------------------------------------------------------------
\* Hybrid sets are plain sets: PointsToSets' ImplementsSets
\* (pts_set/points_to.rs:176-319, util/bit_vec.rs:142-195).
SetsArePlain == S!ImplementsSets

\* A small set stays within its capacity, queries agree with the members, and
\* iterating yields every member once (pts_set/points_to.rs:144-222,
\* util/bit_vec.rs:258-295).
SetsReadExactly == S!TypeOK /\ S!QueriesAgree /\ S!IterationExact

\* The two maps of the difference points-to data stand for one set per
\* variable, with exact reports (ImplementsSets), and an element is handed out
\* for propagation once (pts_set/pt_data.rs:181-302).
DiffDataExact == D!DiffDataExact

\* The basic points-to data are plain sets with exact reports, and the reverse
\* map stays the inverse of the points-to map (pts_set/pt_data.rs:78-138).
BaseDataExact == B!BaseDataExact

\* The rapid type analysis ends: RapidTypeAnalysis' RtaTerminates
\* (rta/rta.rs:93-100, 139-154).
RtaEnds == part = "rta" => RtaTerminates

\* The pool finishes, with cycles in the call graph too: StackFilter's
\* FilterReady (pta/strategies/stack_filtering.rs:171-188).
FilterEnds == part = "filter" => FilterReady
=============================================================================
