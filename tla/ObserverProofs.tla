----------------------------- MODULE ObserverProofs -----------------------------
(***************************************************************************)
(* Theorems about the observer: for every height, distance and choice of   *)
(* start heights.                                                          *)
(***************************************************************************)
EXTENDS Observer, TLAPS

\* What the proofs need of the types. The cursor is below the modulus only as
\* long as it is compared, so nothing is said of it here.
Shapes ==
    /\ height \in Nat /\ height <= MaxHeight
    /\ saved \in Nat \cup {-1}
    /\ cursor \in Nat /\ seen \in Nat /\ seen <= height
    /\ first \in Nat \cup {-1}

\* A walk that goes on has begun somewhere, and only a saved start height lets
\* one go on.
Begun ==
    /\ saved = -1 => pc = "off" /\ first = -1
    /\ pc = "begin" => saved = 0
    /\ pc \notin {"off", "begin"} => first # -1

WalkInv == Shapes /\ Begun /\ NoBlockSkipped /\ ResumeIsSafe

\* Before the first process nothing has been walked over.
LEMMA InitWalk == ObserverInit => WalkInv
BY HeightsAssumption DEF ObserverInit, WalkInv, Shapes, Begun, NoBlockSkipped, ResumeIsSafe

\* Every step keeps the shapes and the order of start, save and walk.
LEMMA NextShapes ==
    ASSUME Shapes, Begun, [ObserverNext]_obsVars
    PROVE  Shapes' /\ Begun'
<1> USE HeightsAssumption DEF Shapes, Begun
<1>1. CASE BeginFetching
  BY <1>1 DEF BeginFetching, StartHeight
<1>2. CASE ResolveStartHeight \/ Tick
  BY <1>2 DEF ResolveStartHeight, Tick
<1>3. CASE WaitForBlockDistance \/ CompareHeights
  BY <1>3 DEF WaitForBlockDistance, CompareHeights
<1>4. CASE SaveCursor \/ FetchBlockEvents \/ BroadcastEvents
  BY <1>4 DEF SaveCursor, FetchBlockEvents, BroadcastEvents, PassOver
<1>5. CASE ObserverCrash \/ ProduceBlock \/ UNCHANGED obsVars
  BY <1>5 DEF ObserverCrash, ProduceBlock, obsVars
<1> QED
  BY <1>1, <1>2, <1>3, <1>4, <1>5 DEF ObserverNext, FetchEvents

\* The walk invariant is inductive: the cursor moves on by one, past a block it
\* has just dealt with, and a restart takes up the walk at the saved height.
LEMMA NextWalk == WalkInv /\ [ObserverNext]_obsVars => WalkInv'
<1> SUFFICES ASSUME WalkInv, [ObserverNext]_obsVars
             PROVE  WalkInv'
  OBVIOUS
<1> USE DEF WalkInv
<1>1. Shapes' /\ Begun'
  BY NextShapes
<1>2. NoBlockSkipped' /\ ResumeIsSafe'
  <2> USE HeightsAssumption DEF Shapes, Begun, NoBlockSkipped, ResumeIsSafe
  <2>1. CASE BeginFetching
    BY <2>1 DEF BeginFetching, StartHeight
  <2>2. CASE ResolveStartHeight \/ Tick
    BY <2>2 DEF ResolveStartHeight, Tick
  <2>3. CASE WaitForBlockDistance \/ CompareHeights
    BY <2>3 DEF WaitForBlockDistance, CompareHeights
  <2>4. CASE SaveCursor \/ FetchBlockEvents \/ BroadcastEvents
    BY <2>4 DEF SaveCursor, FetchBlockEvents, BroadcastEvents, PassOver
  <2>5. CASE ObserverCrash \/ ProduceBlock \/ UNCHANGED obsVars
    BY <2>5 DEF ObserverCrash, ProduceBlock, obsVars
  <2> QED
    BY <2>1, <2>2, <2>3, <2>4, <2>5 DEF ObserverNext, FetchEvents
<1> QED
  BY <1>1, <1>2

\* The walk invariant holds in every reachable state.
LEMMA WalkInvariant == ObserverSpec => []WalkInv
BY InitWalk, NextWalk, PTL DEF ObserverSpec

\* The cursor passes no block over in silence, whatever fails and however often
\* the process restarts from its saved height.
THEOREM NothingSkipped == ObserverSpec => []NoBlockSkipped
<1>1. WalkInv => NoBlockSkipped
  BY DEF WalkInv
<1> QED
  BY <1>1, WalkInvariant, PTL

\* The saved height is a safe start height at every moment.
THEOREM SavedHeightIsSafe == ObserverSpec => []ResumeIsSafe
<1>1. WalkInv => ResumeIsSafe
  BY DEF WalkInv
<1> QED
  BY <1>1, WalkInvariant, PTL

-----------------------------------------------------------------------------
(* The distance *)

\* Unsigned subtraction is subtraction when nothing wraps.
LEMMA MinusExact ==
    ASSUME NEW a \in Nat, NEW b \in Nat, b <= a, a < Modulus
    PROVE  Minus(a, b) = a - b
BY HeightsAssumption DEF Minus

\* After the wait the distance is kept unless the cursor was ahead of core, and
\* the comparison with the height of the tick rules that out.
DistanceInv ==
    /\ Shapes
    /\ pc = "compare" /\ ~blind /\ cursor <= seen => cursor + Distance <= height
    /\ DistanceKept

\* The distance invariant is inductive.
LEMMA NextDistance ==
    ASSUME Begun, DistanceInv, [ObserverNext]_obsVars
    PROVE  DistanceInv'
<1> USE HeightsAssumption DEF DistanceInv, DistanceKept
<1>1. Shapes'
  BY NextShapes
<1> USE DEF Shapes
<1>2. CASE BeginFetching \/ ResolveStartHeight \/ Tick
  BY <1>1, <1>2 DEF BeginFetching, ResolveStartHeight, Tick
<1>3. CASE WaitForBlockDistance
  <2>1. cursor <= height => Minus(height, cursor) = height - cursor
    BY MinusExact
  <2> QED
    BY <1>1, <1>3, <2>1 DEF WaitForBlockDistance
<1>4. CASE CompareHeights
  BY <1>1, <1>4 DEF CompareHeights
<1>5. CASE SaveCursor \/ FetchBlockEvents \/ BroadcastEvents
  BY <1>1, <1>5 DEF SaveCursor, FetchBlockEvents, BroadcastEvents, PassOver
<1>6. CASE ObserverCrash \/ UNCHANGED obsVars
  BY <1>1, <1>6 DEF ObserverCrash, obsVars
<1>7. CASE ProduceBlock
  BY <1>1, <1>7 DEF ProduceBlock
<1> QED
  BY <1>2, <1>3, <1>4, <1>5, <1>6, <1>7 DEF ObserverNext, FetchEvents

\* No block is fetched before core is far enough ahead of it, even from a start
\* height core has not reached, unless the wait could not read the height.
THEOREM DistanceIsKept == ObserverSpec => []DistanceKept
<1>1. ObserverInit => DistanceInv
  BY HeightsAssumption DEF ObserverInit, DistanceInv, Shapes, DistanceKept
<1>2. WalkInv /\ DistanceInv /\ [ObserverNext]_obsVars => DistanceInv'
  BY NextDistance DEF WalkInv
<1>3. DistanceInv => DistanceKept
  BY DEF DistanceInv
<1> QED
  BY <1>1, <1>2, <1>3, WalkInvariant, PTL DEF ObserverSpec
-----------------------------------------------------------------------------
(* Types *)

\* Only a block between the first one and the height of the tick gets past the
\* comparison, so the history of the walk is a set of blocks that exist.
TypeInv ==
    /\ ObserverTypeOK
    /\ pc \notin {"off", "begin"} => cursor # 0
    /\ pc \in {"save", "fetch", "broadcast"} => cursor <= seen

\* The strengthened types are inductive.
LEMMA NextTypes == TypeInv /\ [ObserverNext]_obsVars => TypeInv'
<1> SUFFICES ASSUME TypeInv, [ObserverNext]_obsVars
             PROVE  TypeInv'
  OBVIOUS
<1> USE HeightsAssumption DEF TypeInv, ObserverTypeOK
<1>0. pc \in {"save", "fetch", "broadcast"} => cursor \in 1..MaxHeight
  OBVIOUS
<1>1. CASE BeginFetching
  BY <1>1 DEF BeginFetching, StartHeight
<1>2. CASE ResolveStartHeight
  BY <1>2 DEF ResolveStartHeight
<1>3. CASE Tick
  BY <1>3 DEF Tick
<1>4. CASE WaitForBlockDistance
  BY <1>4 DEF WaitForBlockDistance
<1>5. CASE CompareHeights
  BY <1>5 DEF CompareHeights
<1>6. CASE SaveCursor
  <2>1. lost' \subseteq 1..MaxHeight
    BY <1>0, <1>6 DEF SaveCursor, PassOver
  <2>2. handled' = handled /\ blind' = blind
    BY <1>6 DEF SaveCursor
  <2> QED
    BY <1>0, <1>6, <2>1, <2>2 DEF SaveCursor, PassOver
<1>7. CASE FetchBlockEvents
  <2>1. lost' \subseteq 1..MaxHeight
    BY <1>0, <1>7 DEF FetchBlockEvents, PassOver
  <2>2. handled' = handled /\ blind' = blind
    BY <1>7 DEF FetchBlockEvents
  <2> QED
    BY <1>0, <1>7, <2>1, <2>2 DEF FetchBlockEvents, PassOver
<1>8. CASE BroadcastEvents
  <2>1. handled' \subseteq 1..MaxHeight
    BY <1>0, <1>8 DEF BroadcastEvents
  <2> QED
    BY <1>0, <1>8, <2>1 DEF BroadcastEvents
<1>9. CASE ObserverCrash
  BY <1>9 DEF ObserverCrash
<1>10. CASE ProduceBlock
  BY <1>10 DEF ProduceBlock
<1>11. CASE UNCHANGED obsVars
  BY <1>11 DEF obsVars
<1> QED
  BY <1>1, <1>2, <1>3, <1>4, <1>5, <1>6, <1>7, <1>8, <1>9, <1>10, <1>11
  DEF ObserverNext, FetchEvents

\* The observer keeps its types: it hands over, or loses, only blocks that core
\* has produced, from every start height.
THEOREM ObserverTypes == ObserverSpec => []ObserverTypeOK
<1>1. ASSUME ObserverInit PROVE TypeInv
  <2> USE <1>1 DEF ObserverInit
  <2>1. height \in 1..MaxHeight /\ seen \in 0..MaxHeight
    BY HeightsAssumption
  <2>2. handled \subseteq 1..MaxHeight /\ lost \subseteq 1..MaxHeight
    OBVIOUS
  <2>3. blind \in BOOLEAN
    OBVIOUS
  <2> QED
    BY <2>1, <2>2, <2>3 DEF TypeInv, ObserverTypeOK
<1>2. TypeInv => ObserverTypeOK
  BY DEF TypeInv
<1> QED
  BY <1>1, <1>2, NextTypes, PTL DEF ObserverSpec

=============================================================================
