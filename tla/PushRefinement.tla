--------------------------- MODULE PushRefinement ---------------------------
(***************************************************************************)
(* PushLifecycle keeps the promise of ChangeLedger for each item: what a   *)
(* change's stage and terms are, read off the committed rows.              *)
(***************************************************************************)
EXTENDS PushInvariant

Changes == Batches \X Skus

\* An item of a batch that was declined counts as released: the declining may cross a
\* send that has begun.
StageOf(c) ==
    LET result == item[c[1]][c[2]].result IN
    IF result = "absent" THEN "none"
    ELSE IF Untouched(c[1]) THEN "proposed"
    ELSE IF result = "pending" THEN "released"
    ELSE IF result = "accepted" THEN "open" ELSE "closed"

TermsOf(c) ==
    LET row == item[c[1]][c[2]] IN IF row.result = "absent" THEN NoQty ELSE <<row.prev, row.new>>

Ledger == INSTANCE ChangeLedger WITH
    Terms <- Qty \X Qty,
    NoTerms <- NoQty,
    stage <- [c \in Changes |-> StageOf(c)],
    terms <- [c \in Changes |-> TermsOf(c)],
    outside <- reached

\* However runs, approvals, undos, refreshes, crashes and aborted sessions interleave,
\* each item goes through its stages once and forward, and nothing reaches Amazon before
\* its row is durable or after its answer is.  (send_batch, _recover_interrupted_batches)
LedgerIsKept == Ledger!Spec
=============================================================================
