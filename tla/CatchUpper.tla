------------------------------ MODULE CatchUpper ------------------------------
(***************************************************************************)
(* The catch-upper runs once at start: for PENDING, then PROCESSING, then  *)
(* SUBMITTING_TO_CORE it reads the rows of that status and calls CatchUp   *)
(* of the broadcaster for each of them. The rows are a snapshot: by the    *)
(* time one is taken up, other goroutines may have changed its status.     *)
(***************************************************************************)
EXTENDS RelayerState

\* The status Start turns to after one has been caught up.
NextPhase(phase) == IF phase = "PENDING" THEN "PROCESSING" ELSE "SUBMITTING_TO_CORE"

\* catchupWithStatus reads the rows of the status. An error ends Start, and
\* with it the errgroup and the process.
LoadPhase ==
    /\ cu.pc = "load"
    /\ \/ /\ cu' = [cu EXCEPT !.pc = "check", !.todo = GetWithStatus(row, cu.phase)]
          /\ UNCHANGED <<durable, up, served, cache, recoveryLimit, req, job, submitChan, pool, sub>>
       \/ /\ "db" \in Faults
          /\ ProcessDies
          /\ UNCHANGED durable

\* CatchUp: a cached deposit is left alone.
CatchUpCheck(e) ==
    /\ cu.pc = "check" /\ e \in cu.todo
    /\ cu' = IF e.d \in cache
             THEN [cu EXCEPT !.todo = @ \ {e}]
             ELSE [cu EXCEPT !.todo = @ \ {e}, !.pc = "update", !.cur = e]
    /\ UNCHANGED <<durable, up, served, cache, recoveryLimit, req, job, submitChan, pool, sub>>

\* CatchUp: the row becomes PENDING, whatever its status is by now. The error
\* of a failed update is logged by catchupWithStatus.
CatchUpUpdate ==
    /\ cu.pc = "update"
    /\ \/ /\ row' = UpdateStatus(row, cu.cur.d, "PENDING")
          /\ cu' = [cu EXCEPT !.pc = "enqueue"]
       \/ /\ "db" \in Faults
          /\ row' = row
          /\ cu' = [cu EXCEPT !.pc = "check", !.cur = NoEntry]
    /\ UNCHANGED <<tx, paid, core, up, served, cache, recoveryLimit, req, job, submitChan, pool, sub>>

\* CatchUp: the cache entry, then the client of the chain. With a client, the
\* goroutine that offers the container, which carries the status and the hash
\* of the snapshot; without one CatchUp returns, the deposit cached and PENDING.
\* Its error is logged by catchupWithStatus.
CatchUpEnqueue ==
    /\ cu.pc = "enqueue"
    /\ cache' = cache \cup {cu.cur.d}
    /\ \/ /\ cu.cur.d \in served
          /\ \E j \in Jobs : Spawn(j, "catchup", cu.cur.d, cu.phase, cu.cur.hash)
       \/ /\ cu.cur.d \notin served
          /\ job' = job
    /\ cu' = [cu EXCEPT !.pc = "check", !.cur = NoEntry]
    /\ UNCHANGED <<durable, up, served, recoveryLimit, req, submitChan, pool, sub>>

\* Faulty variant of EndPhase: the deposits in status PROCESSING are forgotten.
EndPhaseSkipsProcessing ==
    /\ cu.pc = "check" /\ cu.todo = {}
    /\ cu' = IF cu.phase = "PENDING"
             THEN [cu EXCEPT !.pc = "load", !.phase = "SUBMITTING_TO_CORE"]
             ELSE [cu EXCEPT !.pc = "done"]
    /\ UNCHANGED <<durable, up, served, cache, recoveryLimit, req, job, submitChan, pool, sub>>

\* The snapshot is used up: the next status of Start, or its end.
EndPhase ==
    /\ cu.pc = "check" /\ cu.todo = {}
    /\ cu' = IF cu.phase # "SUBMITTING_TO_CORE"
             THEN [cu EXCEPT !.pc = "load", !.phase = NextPhase(cu.phase)]
             ELSE [cu EXCEPT !.pc = "done"]
    /\ UNCHANGED <<durable, up, served, cache, recoveryLimit, req, job, submitChan, pool, sub>>

CatchUpperNext ==
    \/ LoadPhase
    \/ \E e \in cu.todo : CatchUpCheck(e)
    \/ CatchUpUpdate
    \/ CatchUpEnqueue
    \/ EndPhase

=============================================================================
