------------------------------- MODULE Observer -------------------------------
(***************************************************************************)
(* The observer's walk over the blocks of core (fetchEvents). At every     *)
(* tick of its timer it reads the height of core, waits until its cursor   *)
(* is far enough behind, saves the cursor, fetches the block of the cursor *)
(* and hands its events to the broadcaster. The saved height is the one    *)
(* thing that survives the process; the service never reads it, but an     *)
(* operator may pass it as the start height of the next process.           *)
(***************************************************************************)
EXTENDS Integers

CONSTANTS
    MaxHeight,      \* where the chain of core stops growing (a bound)
    Modulus,        \* heights are unsigned integers modulo this number
    Distance,       \* --block-distance
    StartHeights,   \* values of --start-height for the first process
    ObserverFaults  \* what may go wrong

\* query: the height of core cannot be read. db: the cursor cannot be saved.
\* fetch: a block cannot be fetched or parsed. crash: the process dies.
ObserverFaultKinds == {"query", "db", "fetch", "crash"}

ASSUME HeightsAssumption ==
    /\ MaxHeight \in Nat \ {0} /\ Distance \in Nat
    /\ Modulus \in Nat /\ MaxHeight + Distance < Modulus
    /\ StartHeights \subseteq Nat /\ \A s \in StartHeights : s < Modulus
ASSUME ObserverFaultsAssumption == ObserverFaults \subseteq ObserverFaultKinds

VARIABLES
    height,     \* the height of core
    saved,      \* latest_block_id in the database, -1 without a row
    pc,         \* where fetchEvents is
    cursor,     \* startHeight of fetchEvents
    seen,       \* currentHeight, read at the tick
    first,      \* history: the block the walk began with, -1 before
    handled,    \* history: blocks whose events went to the broadcaster
    lost,       \* history: blocks passed over because of a logged failure
    blind       \* history: the last wait ended because of an unreadable height

obsVars == <<height, saved, pc, cursor, seen, first, handled, lost, blind>>

\* Subtraction of unsigned integers.
Minus(a, b) == (a - b) % Modulus

ObserverInit ==
    /\ height = 1
    /\ saved = -1
    /\ pc = "off" /\ cursor = 0 /\ seen = 0
    /\ first = -1 /\ handled = {} /\ lost = {} /\ blind = FALSE

\* The first process gets a start height of the operator's choice, a later one
\* the height its predecessor saved.
StartHeight == IF saved = -1 THEN StartHeights ELSE {saved}

\* fetchEvents begins by overwriting the saved height. An error ends Run, and
\* with it the process.
BeginFetching ==
    /\ pc = "off"
    /\ \E s \in StartHeight :
          /\ cursor' = s /\ saved' = s
          /\ pc' = IF s = 0 THEN "begin" ELSE "tick"
          /\ first' = IF first = -1 /\ s # 0 THEN s ELSE first
    /\ UNCHANGED <<height, seen, handled, lost, blind>>

\* Faulty variant of ResolveStartHeight: the walk begins the distance behind
\* the height, below the first block of a young chain.
ResolveStartHeightBehind ==
    /\ pc = "begin"
    /\ cursor' = height - Distance
    /\ first' = cursor'
    /\ pc' = "tick"
    /\ UNCHANGED <<height, saved, seen, handled, lost, blind>>

\* Start height zero stands for the current height of core: the walk begins
\* anew there.
ResolveStartHeight ==
    /\ pc = "begin"
    /\ \/ /\ cursor' = height
          /\ first' = height
          /\ pc' = "tick"
       \/ /\ "query" \in ObserverFaults
          /\ pc' = "off"
          /\ UNCHANGED <<cursor, first>>
    /\ UNCHANGED <<height, saved, seen, handled, lost, blind>>

\* A tick of the timer; an unreadable height waits for the next one.
Tick ==
    /\ pc = "tick"
    /\ seen' = height
    /\ pc' = "wait"
    /\ UNCHANGED <<height, saved, cursor, first, handled, lost, blind>>

\* waitForBlockDistance sleeps until core is far enough ahead. It reads the
\* height afresh, and gives up waiting when it cannot.
WaitForBlockDistance ==
    /\ pc = "wait"
    /\ \/ Minus(height, cursor) >= Distance /\ blind' = FALSE
       \/ "query" \in ObserverFaults /\ blind' = TRUE
    /\ pc' = "compare"
    /\ UNCHANGED <<height, saved, cursor, seen, first, handled, lost>>

\* Faulty variant of CompareHeights: the cursor is not compared with the height.
CompareHeightsSkipped ==
    /\ pc = "compare"
    /\ pc' = "save"
    /\ UNCHANGED <<height, saved, cursor, seen, first, handled, lost, blind>>

\* A cursor beyond the height read at the tick waits for another tick.
CompareHeights ==
    /\ pc = "compare"
    /\ pc' = IF cursor > seen THEN "tick" ELSE "save"
    /\ UNCHANGED <<height, saved, cursor, seen, first, handled, lost, blind>>

\* A failed save or fetch is logged, and the cursor moves on all the same.
PassOver ==
    /\ lost' = lost \cup {cursor}
    /\ cursor' = cursor + 1
    /\ pc' = "tick"

\* Faulty variant of SaveCursor: the next height is saved, before this one is
\* handled.
SaveCursorAhead ==
    /\ pc = "save"
    /\ \/ /\ saved' = cursor + 1
          /\ pc' = "fetch"
          /\ UNCHANGED <<cursor, lost>>
       \/ /\ "db" \in ObserverFaults
          /\ PassOver
          /\ UNCHANGED saved
    /\ UNCHANGED <<height, seen, first, handled, blind>>

\* UpdateLatestBlockId
SaveCursor ==
    /\ pc = "save"
    /\ \/ /\ saved' = cursor
          /\ pc' = "fetch"
          /\ UNCHANGED <<cursor, lost>>
       \/ /\ "db" \in ObserverFaults
          /\ PassOver
          /\ UNCHANGED saved
    /\ UNCHANGED <<height, seen, first, handled, blind>>

\* Faulty variant of FetchBlockEvents: a block that fails is tried again.
FetchBlockEventsRetried ==
    /\ pc = "fetch"
    /\ \/ pc' = "broadcast"
       \/ "fetch" \in ObserverFaults /\ pc' = "tick"
    /\ UNCHANGED <<height, saved, cursor, seen, first, handled, lost, blind>>

\* fetchBlockEvents: one event that cannot be parsed loses the whole block.
FetchBlockEvents ==
    /\ pc = "fetch"
    /\ \/ /\ pc' = "broadcast"
          /\ UNCHANGED <<cursor, lost>>
       \/ /\ "fetch" \in ObserverFaults
          /\ PassOver
    /\ UNCHANGED <<height, saved, seen, first, handled, blind>>

\* Faulty variant of BroadcastEvents: the cursor jumps to the height of core.
BroadcastEventsJumps ==
    /\ pc = "broadcast"
    /\ handled' = handled \cup {cursor}
    /\ cursor' = seen + 1
    /\ pc' = "tick"
    /\ UNCHANGED <<height, saved, seen, first, lost, blind>>

\* The deposits and epochs of the block go to the broadcaster, whose refusals
\* are logged.
BroadcastEvents ==
    /\ pc = "broadcast"
    /\ handled' = handled \cup {cursor}
    /\ cursor' = cursor + 1
    /\ pc' = "tick"
    /\ UNCHANGED <<height, saved, seen, first, lost, blind>>

\* The process dies; the cursor dies with it.
ObserverCrash ==
    /\ "crash" \in ObserverFaults /\ pc # "off"
    /\ pc' = "off" /\ cursor' = 0 /\ seen' = 0
    /\ UNCHANGED <<height, saved, first, handled, lost, blind>>

\* Core produces a block.
ProduceBlock ==
    /\ height < MaxHeight
    /\ height' = height + 1
    /\ UNCHANGED <<saved, pc, cursor, seen, first, handled, lost, blind>>

FetchEvents ==
    \/ BeginFetching \/ ResolveStartHeight \/ Tick
    \/ WaitForBlockDistance \/ CompareHeights \/ SaveCursor
    \/ FetchBlockEvents \/ BroadcastEvents

ObserverNext == FetchEvents \/ ObserverCrash \/ ProduceBlock

ObserverSpec == ObserverInit /\ [][ObserverNext]_obsVars

\* The goroutine of the observer is scheduled and its timer ticks. Core need
\* not produce blocks.
ObserverFairSpec == ObserverSpec /\ WF_obsVars(FetchEvents)

-----------------------------------------------------------------------------
(* Properties *)

\* The variables have their types.
ObserverTypeOK ==
    /\ height \in 1..MaxHeight
    /\ saved \in Nat \cup {-1}
    /\ pc \in {"off", "begin", "tick", "wait", "compare", "save", "fetch", "broadcast"}
    /\ cursor \in Nat /\ seen \in 0..MaxHeight
    /\ first \in Nat \cup {-1}
    /\ handled \subseteq 1..MaxHeight /\ lost \subseteq 1..MaxHeight
    /\ blind \in BOOLEAN

\* Every block from the first one to the cursor went to the broadcaster, or a
\* failure to save the cursor or to fetch the block was logged for it: the
\* cursor passes nothing over in silence, over restarts from the saved height.
NoBlockSkipped ==
    pc \notin {"off", "begin"} /\ first # -1 =>
        \A h \in first..(cursor - 1) : h \in handled \cup lost

\* The height in latest_block is a safe start height for the next process:
\* nothing below it is still to be handled. It is saved before the block is.
ResumeIsSafe ==
    first # -1 => \A h \in first..(saved - 1) : h \in handled \cup lost

\* A block is fetched only when core is at least --block-distance ahead of it,
\* unless the wait for it ended because the height could not be read. A start
\* height beyond the height of core makes the gap wrap around, which must not
\* let a block through that does not exist yet.
DistanceKept ==
    pc \in {"save", "fetch", "broadcast"} /\ ~blind => cursor + Distance <= height

\* In a process that lives on, every block from the first one that core has left
\* far enough behind is handed to the broadcaster in the end, or its failure is
\* logged: one block that cannot be fetched does not hold up the walk. A walk
\* from height zero whose process dies before it saves a height begins anew.
EventuallyHandled ==
    <>[](pc \notin {"off", "begin"}) =>
        \A h \in 1..MaxHeight :
            (first # -1 /\ h >= first /\ h + Distance <= height)
                ~> (h \in handled \cup lost \/ h < first)

=============================================================================
