--------------------------- MODULE GuardedWrites ---------------------------
(***************************************************************************)
(* What safe_update_status (app/db.py) promises to the jobs that use it,   *)
(* without version numbers: "Atomically update product status only if      *)
(* version matches.  Returns True if update succeeded, False if another    *)
(* job already modified it."                                               *)
(*                                                                         *)
(* A job that reads rows holds a ticket on each of them.  A guarded write  *)
(* needs the writer's ticket and takes away everybody's tickets on the row *)
(* it writes, so of the jobs that read the same state of a row at most one *)
(* writes it, and a job never writes over a write it has not seen.         *)
(***************************************************************************)
EXTENDS Naturals

CONSTANTS Jobs, Products

VARIABLES
    writes,  \* writes[p]: guarded writes of p so far, its insertion included
    tickets  \* the <<job, product>> pairs whose next guarded write goes through

Init ==
    /\ writes \in [Products -> {0, 1}]
    /\ tickets = {}

\* Job j reads the rows S of the store.
Read(j, S) ==
    /\ \A p \in S : writes[p] # 0
    /\ \A p \in Products : <<j, p>> \notin tickets
    /\ tickets' = tickets \cup ({j} \X S)
    /\ UNCHANGED writes

\* Job j ends: it has written the rows W it still held tickets on, and
\* inserted the rows New.
Finish(j, W, New) ==
    /\ {j} \X W \subseteq tickets
    /\ \A p \in New : writes[p] = 0
    /\ writes' = [p \in Products |-> IF p \in W \cup New THEN writes[p] + 1
                                                         ELSE writes[p]]
    /\ tickets' = {t \in tickets : t[1] # j /\ t[2] \notin W}

Next ==
    \E j \in Jobs :
        \/ \E S \in SUBSET Products : Read(j, S)
        \/ \E W, New \in SUBSET Products : Finish(j, W, New)

vars == <<writes, tickets>>

Spec == Init /\ [][Next]_vars
=============================================================================
