------------------------------ MODULE PushData ------------------------------
(***************************************************************************)
(* The rows of push_batches, push_items and amazon_listings, as far as the *)
(* life of a batch depends on them, and the pure judgements the code makes *)
(* on those rows: how a send is summed up, what a read-back says about an  *)
(* item, and what undoing a set of batches would put back.                 *)
(***************************************************************************)
EXTENDS Naturals, FiniteSets

CONSTANTS
    Skus,             \* seller SKUs in scope
    Qty,              \* the quantities a listing may show
    NoQty,            \* SQL NULL, and Amazon's "no such SKU"
    MaxBatch,         \* bound on push_batches.id
    SampleThreshold,  \* VERIFY_SAMPLE_THRESHOLD
    SampleSize        \* VERIFY_SAMPLE_SIZE

ASSUME NoQtyAssumption == NoQty \notin Qty
ASSUME BatchAssumption == MaxBatch \in Nat
ASSUME SampleAssumption == SampleThreshold \in Nat /\ SampleSize \in 1..SampleThreshold

Batches == 1..MaxBatch

SyncModes == {"dry_run", "needs_approval", "automatic"}

\* "absent" is a row not inserted yet.  APPROVED is never committed: approve
\* overwrites it with SENDING before its first commit.
BatchStatuses == {"absent", "pending", "awaiting_approval", "sending", "sent", "verified",
                  "partially_failed", "failed", "rejected", "rolled_back"}

ItemResults == {"absent", "pending", "accepted", "verified", "rejected", "not_applied", "skipped"}

\* mode is the mode of the run that created the batch; aged says that more
\* than VERIFY_CONFIRM_DEADLINE has passed since sent_at.
BatchRows == [status: BatchStatuses, mode: SyncModes, aged: BOOLEAN,
              undoOf: 0..MaxBatch, undoneBy: 0..MaxBatch]

ItemRows == [result: ItemResults, prev: Qty \cup {NoQty}, new: Qty \cup {NoQty},
             read: Qty \cup {NoQty}]

ListingRows == [quantity: Qty, present: BOOLEAN]

NoBatch == [status |-> "absent", mode |-> "dry_run", aged |-> FALSE, undoOf |-> 0, undoneBy |-> 0]

NoItem == [result |-> "absent", prev |-> NoQty, new |-> NoQty, read |-> NoQty]

NewItem(before, after) == [result |-> "pending", prev |-> before, new |-> after, read |-> NoQty]

Listed(rows) == {s \in Skus : rows[s].result # "absent"}

Open(rows) == {s \in Skus : rows[s].result = "accepted"}

-----------------------------------------------------------------------------
(* Summing up a send: the status send_batch leaves when nothing was raised. *)

SentStatus(rejected, accepted) ==
    IF rejected = {} THEN "sent" ELSE IF accepted # {} THEN "partially_failed" ELSE "failed"

-----------------------------------------------------------------------------
(* Reading back. *)

\* The items one pass of verify_batch reads: all that are open, or a sample.
Samples(rows) ==
    IF Cardinality(Open(rows)) > SampleThreshold
    THEN {sample \in SUBSET Open(rows) : Cardinality(sample) = SampleSize}
    ELSE {Open(rows)}

\* A mutant of Judge: the first version of the code, which took an early
\* read-back for proof of failure (the 25 false alarms of 12 September 2026).
JudgeHasty(row, shown, aged) ==
    [row EXCEPT !.read = shown,
                !.result = IF shown # NoQty /\ shown = row.new THEN "verified" ELSE "not_applied"]

\* A mutant of Judge: what was sent is taken for what Amazon shows.
JudgeTrusting(row, shown, aged) ==
    [row EXCEPT !.read = shown,
                !.result = IF shown # NoQty THEN "verified" ELSE "not_applied"]

\* What one read-back makes of one item.
Judge(row, shown, aged) ==
    [row EXCEPT !.read = shown,
                !.result = IF shown = NoQty THEN "not_applied"
                           ELSE IF shown = row.new THEN "verified"
                           ELSE IF aged THEN "not_applied" ELSE row.result]

\* A mutant of Promotes: an item nobody read does not hold the batch back.
PromotesSampled(rows, checked, seen) ==
    seen = checked /\ \A s \in seen : rows[s].result # "not_applied"

\* Whether a pass that read seen, of the items it chose to check, leaves the
\* batch VERIFIED: no failure in this pass, no read error, nothing open.
Promotes(rows, checked, seen) ==
    /\ seen = checked
    /\ \A s \in seen : rows[s].result # "not_applied"
    /\ Open(rows) = {}

-----------------------------------------------------------------------------
(* Planning an undo. *)

\* A mutant of Believed: the first version, which trusted the catalogue cache.
BelievedCached(row, quantity) == quantity

\* _believed_current_quantity: what Amazon is taken to show now.
Believed(row, quantity) ==
    IF row.read # NoQty THEN row.read
    ELSE IF row.result \in {"accepted", "verified"} THEN row.new
    ELSE quantity

\* The newest batch of ids, not yet rolled back, that lists s; 0 if none does.
NewestListing(batch, item, ids, s) ==
    LET with == {b \in ids : batch[b].status # "rolled_back" /\ s \in Listed(item[b])}
    IN  IF with = {} THEN 0 ELSE CHOOSE b \in with : \A c \in with : c <= b

\* What the plan does with the one row it keeps of a SKU.
Reversible(row, entry) ==
    /\ row.result \notin {"rejected", "skipped"}
    /\ row.prev # NoQty
    /\ entry.present
    /\ Believed(row, entry.quantity) # row.prev

\* plan_rollback: the SKUs undoing ids would send, newest batch first and the
\* first row of a SKU wins, even when that row turns out not to be reversible.
PlanSkus(batch, item, listing, ids) ==
    {s \in Skus : LET b == NewestListing(batch, item, ids, s)
                  IN  b # 0 /\ Reversible(item[b][s], listing[s])}

\* The items of the batch that carries the plan out.  create_batch records as
\* previous quantity what the plan believed Amazon to show.
PlanItems(batch, item, listing, ids) ==
    [s \in Skus |->
        IF s \in PlanSkus(batch, item, listing, ids)
        THEN LET row == item[NewestListing(batch, item, ids, s)][s]
             IN  NewItem(Believed(row, listing[s].quantity), row.prev)
        ELSE NoItem]

UndoableStatuses == {"sent", "verified", "partially_failed"}

\* rollback_last_n: the newest n batches that sent something and are not undos.
LastSent(batch, n) ==
    LET sent == {b \in Batches : batch[b].status \in UndoableStatuses /\ batch[b].undoOf = 0}
    IN  {b \in sent : Cardinality({c \in sent : c > b}) < n}
=============================================================================
