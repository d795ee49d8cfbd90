----------------------------- MODULE Lifecycle ------------------------------
(***************************************************************************)
(* What a session row promises its reader: it is opened while 'running'    *)
(* and only then, it is called 'done' only when flat, and what is settled  *)
(* stays settled unless the session fails.                                 *)
(***************************************************************************)
VARIABLES status, holding

Init == status = "planned" /\ holding = FALSE

Begin == status = "planned" /\ status' = "running" /\ UNCHANGED holding

Open == status = "running" /\ ~holding /\ holding' = TRUE /\ UNCHANGED status

Close == status # "planned" /\ holding /\ holding' = FALSE /\ UNCHANGED status

WindDown == status = "running" /\ status' = "flattening" /\ UNCHANGED holding

Settle ==
    /\ status = "flattening"
    /\ \/ status' = "done" /\ ~holding
       \/ status' = "halted"
    /\ UNCHANGED holding

Fail ==
    /\ status \in {"running", "flattening", "done", "halted"}
    /\ status' = "failed"
    /\ UNCHANGED holding

Next == Begin \/ Open \/ Close \/ WindDown \/ Settle \/ Fail

Spec == Init /\ [][Next]_<<status, holding>>
=============================================================================
