--------------------------- MODULE MCSyncSchedule ---------------------------
(***************************************************************************)
(* A small instance of SyncSchedule: a grid whose missed slots are skipped *)
(* and whose runs exclude each other, a grid that catches up and queues,   *)
(* a single slot, and a stream.                                            *)
(***************************************************************************)
EXTENDS SyncSchedule

Sched(kind, start, every, catchUp, forbid) ==
    [kind |-> kind, start |-> start, every |-> every, catchUp |-> catchUp, forbid |-> forbid]

MCSchedules ==
    {Sched("interval", 1, 1, FALSE, TRUE), Sched("interval", 0, 1, TRUE, FALSE),
     Sched("once", 1, 1, FALSE, TRUE), Sched("continuous", 0, 1, FALSE, TRUE)}
=============================================================================
