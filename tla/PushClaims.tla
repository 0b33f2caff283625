----------------------------- MODULE PushClaims -----------------------------
(***************************************************************************)
(* What a comment of the repository says about the life of a batch, stated *)
(* over PushLifecycle.  The code does something else: a run refutes it.    *)
(***************************************************************************)
EXTENDS PushLifecycle

\* Undo still works for an item that was sent and whose ACCEPTED status did not
\* survive a crash.  (app/engine/pipeline.py, _recover_interrupted_batches)
InterruptedIsUndoable ==
    \A p \in reached :
        LET row == item[p[1]][p[2]] IN
        /\ batch[p[1]].status \in UndoableStatuses /\ row.result = "skipped"
        /\ row.prev # row.new /\ amazon[p[2]] = row.new /\ listing[p[2]].present
        => p[2] \in PlanSkus(batch, item, listing, {p[1]})
=============================================================================
