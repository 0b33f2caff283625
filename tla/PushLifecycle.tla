--------------------------- MODULE PushLifecycle ---------------------------
(***************************************************************************)
(* The life of a push batch: proposed by a run, recorded, held or sent,    *)
(* read back, recovered after an interruption, undone.  One job at a time  *)
(* holds the run lock: a pipeline run, an approval, an undo, or a          *)
(* catalogue refresh.  What a job has written to its database session and  *)
(* not committed is in job.sess; a crash or an exception loses it, while   *)
(* what reached Amazon stays there.  Amazon applies an accepted change     *)
(* later, or never.                                                        *)
(***************************************************************************)
EXTENDS PushData

CONSTANTS
    Web,             \* web processes; an async handler runs to its end before the
                     \* process serves another request
    Main,            \* the web process whose threads also run the scheduler
    Scheduler,       \* the scheduler's thread
    NoOne,           \* the run lock is free
    Modes,           \* the sync modes the operator uses
    Pausing,         \* whether the operator uses the pause switch
    EditedSkus,      \* SKUs whose quantity somebody may change in Seller Central
    DeletedSkus,     \* SKUs somebody may delete there
    FeedsThreshold,  \* above this many items a batch goes as one feed document
    UndoCount        \* the largest "undo the last n batches" offered

ASSUME ActorAssumption == Main \in Web /\ Scheduler \notin Web /\ NoOne \notin Web \cup {Scheduler}
ASSUME OperatorAssumption == Modes \subseteq SyncModes /\ Modes # {} /\ Pausing \in BOOLEAN
ASSUME LimitAssumption == FeedsThreshold \in Nat /\ UndoCount \in Nat

VARIABLES
    amazon,   \* what Amazon shows for a SKU; NoQty once the SKU is deleted
    queued,   \* the change Amazon accepted last and does not show yet
    batch,    \* committed push_batches rows
    item,     \* committed push_items rows
    listing,  \* committed amazon_listings rows
    mode,     \* setting sync_mode
    paused,   \* setting paused
    lock,     \* who holds the PostgreSQL advisory run lock
    job,      \* the program of the lock holder
    asked,    \* the batch a web process has checked for approval, before the lock
    reached   \* history: <<b, s>> such that a change of batch b for s reached Amazon

vars == <<amazon, queued, batch, item, listing, mode, paused, lock, job, asked, reached>>
rows == <<batch, item, listing>>
settings == <<mode, paused>>
world == <<amazon, queued, reached>>

Actors == Web \cup {Scheduler}

Kinds == {"none", "run", "approve", "undo", "refresh"}

Phases == {"idle", "opening", "settling", "confirming", "recorded",
           "sending", "stopped", "accounted", "reporting"}

\* targets: the batches still to confirm, or the batches being undone.
Jobs == [kind: Kinds, phase: Phases, mode: SyncModes, dry: BOOLEAN, cur: 0..MaxBatch,
         targets: SUBSET Batches, sess: [Skus -> {"none", "accepted", "rejected"}],
         report: [Skus -> Qty \cup {NoQty}]]

Nothing == [s \in Skus |-> "none"]

IdleJob == [kind |-> "none", phase |-> "idle", mode |-> "dry_run", dry |-> FALSE, cur |-> 0,
            targets |-> {}, sess |-> Nothing, report |-> [s \in Skus |-> NoQty]]

TypeOK ==
    /\ amazon \in [Skus -> Qty \cup {NoQty}]
    /\ queued \in [Skus -> Qty \cup {NoQty}]
    /\ batch \in [Batches -> BatchRows]
    /\ item \in [Batches -> [Skus -> ItemRows]]
    /\ listing \in [Skus -> ListingRows]
    /\ mode \in SyncModes
    /\ paused \in BOOLEAN
    /\ lock \in Actors \cup {NoOne}
    /\ job \in Jobs
    /\ asked \in [Web -> 0..MaxBatch]
    /\ reached \subseteq Batches \X Skus

Init ==
    /\ amazon \in [Skus -> Qty]
    /\ queued = [s \in Skus |-> NoQty]
    /\ batch = [b \in Batches |-> NoBatch]
    /\ item = [b \in Batches |-> [s \in Skus |-> NoItem]]
    /\ listing = [s \in Skus |-> [quantity |-> amazon[s], present |-> TRUE]]
    /\ mode \in Modes
    /\ paused = FALSE
    /\ lock = NoOne
    /\ job = IdleJob
    /\ asked = [w \in Web |-> 0]
    /\ reached = {}

-----------------------------------------------------------------------------
(* Parts shared by the actions. *)

\* The event loop of w is free to start a handler.
Serving(w) == lock # w /\ asked[w] = 0

TakeLock(a, j) == lock = NoOne /\ lock' = a /\ job' = j

Release == lock' = NoOne /\ job' = IdleJob

At(kind, phase) == job.kind = kind /\ job.phase = phase

IsNext(b) == batch[b].status = "absent" /\ \A c \in 1..(b - 1) : batch[c].status # "absent"

SetBatch(b, row) == batch' = [batch EXCEPT ![b] = row]

\* The items of the batch being sent, as the job's session sees them.
SessionItems == [s \in Skus |->
    IF job.sess[s] = "none" THEN item[job.cur][s]
    ELSE [item[job.cur][s] EXCEPT !.result = job.sess[s]]]

AcceptedNow == {s \in Skus : job.sess[s] = "accepted"}
RejectedNow == {s \in Skus : job.sess[s] = "rejected"}

\* A mutant of CanRead: the practice shortcut applied to batches really sent.
CanReadAny(b) == TRUE

\* A practice-mode client cannot read Amazon.
CanRead(b) == ~job.dry \/ batch[b].mode = "dry_run"

\* verify_batch for b: `before` are its items and `base` the batch rows as the
\* session sees them; b keeps its status in base unless it is promoted.
VerifyBatch(b, before, base) ==
    IF Open(before) = {} \/ ~CanRead(b)
    THEN /\ item' = [item EXCEPT ![b] = before]
         /\ batch' = base
         /\ UNCHANGED listing
    ELSE \E checked \in Samples(before) : \E seen \in SUBSET checked :
         LET shown(s) == IF job.dry THEN before[s].new ELSE amazon[s]
             after == [s \in Skus |-> IF s \in seen THEN Judge(before[s], shown(s), batch[b].aged)
                                      ELSE before[s]]
             confirmed == {s \in seen : after[s].result = "verified" /\ ~job.dry}
         IN  /\ item' = [item EXCEPT ![b] = after]
             /\ batch' = IF Promotes(after, checked, seen)
                         THEN [base EXCEPT ![b].status = "verified"] ELSE base
             /\ listing' = [s \in Skus |-> IF s \in confirmed
                                           THEN [listing[s] EXCEPT !.quantity = amazon[s]]
                                           ELSE listing[s]]

-----------------------------------------------------------------------------
(* A pipeline run, started by the scheduler or by "Run now". *)

\* amazon_client reads the mode: only automatic mode gets a client that sends.
RunStart(a) ==
    /\ a \in Web => Serving(a)
    /\ TakeLock(a, [IdleJob EXCEPT !.kind = "run", !.phase = "opening", !.dry = (mode # "automatic")])
    /\ UNCHANGED <<world, rows, settings, asked>>

\* execute_run reads the settings again; the kill switch comes first.
RunOpen ==
    /\ At("run", "opening")
    /\ IF paused THEN Release
       ELSE job' = [job EXCEPT !.phase = "settling", !.mode = mode] /\ UNCHANGED lock
    /\ UNCHANGED <<world, rows, settings, asked>>

\* A mutant of Stranded: a send interrupted before its first accepted item is
\* not looked for.
StrandedOpen(b) == batch[b].status = "sending" /\ Open(item[b]) # {}

\* While a run holds the lock and has not sent, SENDING means abandoned.
Stranded(b) == batch[b].status = "sending"

\* _recover_interrupted_batches, one batch, up to its checkpoint.
RunRecover(b) ==
    /\ At("run", "settling")
    /\ Stranded(b)
    /\ LET never == {s \in Skus : item[b][s].result = "pending"}
           rest == [s \in Skus |-> IF s \in never THEN [item[b][s] EXCEPT !.result = "skipped"]
                                   ELSE item[b][s]]
       IN  VerifyBatch(b, rest, [batch EXCEPT ![b].status =
                                    IF never # {} THEN "partially_failed" ELSE "sent"])
    /\ UNCHANGED <<world, settings, lock, job, asked>>

Unconfirmed == {b \in Batches : batch[b].status = "sent" /\ Open(item[b]) # {}}

RunRecovered ==
    /\ At("run", "settling")
    /\ \A b \in Batches : ~Stranded(b)
    /\ job' = [job EXCEPT !.phase = "confirming", !.targets = Unconfirmed]
    /\ UNCHANGED <<world, rows, settings, lock, asked>>

\* _confirm_unconfirmed_batches, one batch.
RunConfirm(b) ==
    /\ At("run", "confirming")
    /\ b \in job.targets
    /\ VerifyBatch(b, item[b], batch)
    /\ job' = [job EXCEPT !.targets = @ \ {b}]
    /\ UNCHANGED <<world, settings, lock, asked>>

\* Nothing to change, a guardrail, or no vendor file that can be read.
RunEndsEarly ==
    /\ At("run", "confirming") /\ job.targets = {}
    /\ Release
    /\ UNCHANGED <<world, rows, settings, asked>>

\* The decisions of this run, recorded by create_batch and committed at the
\* durability barrier.  The previous quantity comes from the catalogue cache.
RunRecord(b) ==
    /\ At("run", "confirming") /\ job.targets = {}
    /\ IsNext(b)
    /\ \E chosen \in (SUBSET {s \in Skus : listing[s].present}) \ {{}} :
       \E want \in [chosen -> Qty] :
          /\ \A s \in chosen : want[s] # listing[s].quantity
          /\ item' = [item EXCEPT ![b] = [s \in Skus |->
                IF s \in chosen THEN NewItem(listing[s].quantity, want[s]) ELSE NoItem]]
    /\ SetBatch(b, [NoBatch EXCEPT !.status = "pending", !.mode = job.mode])
    /\ job' = [job EXCEPT !.phase = "recorded", !.cur = b]
    /\ UNCHANGED <<world, listing, settings, lock, asked>>

\* Practice mode leaves the batch pending; ask-first mode holds it.
RunHold ==
    /\ At("run", "recorded") /\ job.mode # "automatic"
    /\ SetBatch(job.cur, [batch[job.cur] EXCEPT !.status =
            IF job.mode = "dry_run" THEN "pending" ELSE "awaiting_approval"])
    /\ Release
    /\ UNCHANGED <<world, item, listing, settings, asked>>

\* A mutant of Sending: the status is written but not committed before the
\* first call, so a crash leaves the batch looking untouched.
SendingFlushed(row) == [row EXCEPT !.aged = FALSE]

\* What send_batch commits before its first call to Amazon.
Sending(row) == [row EXCEPT !.status = "sending", !.aged = FALSE]

RunSend ==
    /\ At("run", "recorded") /\ job.mode = "automatic"
    /\ SetBatch(job.cur, Sending(batch[job.cur]))
    /\ job' = [job EXCEPT !.phase = "sending"]
    /\ UNCHANGED <<world, item, listing, settings, lock, asked>>

-----------------------------------------------------------------------------
(* Sending the items of batch job.cur. *)

Feed == Cardinality(Listed(item[job.cur])) > FeedsThreshold

\* Amazon takes the changes of batch job.cur for the SKUs of taken.
Reach(taken) ==
    /\ queued' = [s \in Skus |-> IF s \in taken THEN item[job.cur][s].new ELSE queued[s]]
    /\ reached' = reached \cup ({job.cur} \X taken)
    /\ UNCHANGED amazon

Unsent == Listed(item[job.cur]) \ {s \in Skus : job.sess[s] # "none"}

\* _send_via_listings, one PATCH that Amazon answers.
PatchItem(s) ==
    /\ job.phase = "sending" /\ ~Feed /\ s \in Unsent
    /\ \/ /\ ~job.dry /\ amazon[s] # NoQty
          /\ Reach({s})
          /\ job' = [job EXCEPT !.sess[s] = "accepted"]
       \/ /\ ~job.dry
          /\ job' = [job EXCEPT !.sess[s] = "rejected"]
          /\ UNCHANGED world
       \/ /\ job.dry
          /\ job' = [job EXCEPT !.sess[s] = "accepted"]
          /\ UNCHANGED world
    /\ UNCHANGED <<rows, settings, lock, asked>>

\* A PATCH raises SpApiError: the batch stops as FAILED.  After a timeout or a
\* 5xx answer the change may have reached Amazon all the same.
PatchRaises(s) ==
    /\ job.phase = "sending" /\ ~Feed /\ ~job.dry /\ s \in Unsent
    /\ \/ amazon[s] # NoQty /\ Reach({s})
       \/ UNCHANGED world
    /\ job' = [job EXCEPT !.phase = "stopped"]
    /\ UNCHANGED <<rows, settings, lock, asked>>

Existing(some) == {s \in some : amazon[s] # NoQty}

\* _send_via_feed.  Amazon takes the changes of `taken`; the processing report
\* is complete, or the feed did not finish DONE, or the report is unreadable.
SendFeed ==
    /\ job.phase = "sending" /\ Feed /\ Unsent # {}
    /\ \E refused \in SUBSET Listed(item[job.cur]) :
          /\ job' = [job EXCEPT !.sess = [s \in Skus |->
                IF s \notin Listed(item[job.cur]) THEN "none"
                ELSE IF s \in refused THEN "rejected" ELSE "accepted"]]
          /\ \/ job.dry /\ refused = {} /\ UNCHANGED world
             \/ ~job.dry /\ Reach(Existing(Listed(item[job.cur]) \ refused))
             \/ /\ ~job.dry /\ refused \in {{}, Listed(item[job.cur])}
                /\ \E taken \in SUBSET Existing(Listed(item[job.cur])) : Reach(taken)
    /\ UNCHANGED <<rows, settings, lock, asked>>

\* FeedError is no SpApiError: it leaves send_batch, and the session with it.
FeedRaises ==
    /\ job.phase = "sending" /\ Feed /\ ~job.dry /\ Unsent # {}
    /\ \E taken \in SUBSET Existing(Listed(item[job.cur])) : Reach(taken)
    /\ Release
    /\ UNCHANGED <<rows, settings, asked>>

SendOver == job.phase = "stopped" \/ (job.phase = "sending" /\ Unsent = {})

\* The status send_batch leaves in the session.
StatusAfterSend ==
    IF job.phase = "stopped" THEN "failed" ELSE SentStatus(RejectedNow, AcceptedNow)

\* The batch rows in the session after a send: an undo has also marked the
\* batches it was asked to undo, whatever became of the send.
BatchesAfterSend ==
    [b \in Batches |->
        IF b = job.cur THEN [batch[b] EXCEPT !.status = StatusAfterSend]
        ELSE IF b \in job.targets
        THEN [batch[b] EXCEPT !.status = "rolled_back", !.undoneBy = job.cur]
        ELSE batch[b]]

\* A run commits the results before it verifies.
RunAccount ==
    /\ job.kind = "run" /\ SendOver
    /\ item' = [item EXCEPT ![job.cur] = SessionItems]
    /\ batch' = BatchesAfterSend
    /\ IF AcceptedNow # {} THEN job' = [job EXCEPT !.phase = "accounted"] /\ UNCHANGED lock
       ELSE Release
    /\ UNCHANGED <<world, listing, settings, asked>>

RunVerify ==
    /\ At("run", "accounted")
    /\ VerifyBatch(job.cur, item[job.cur], batch)
    /\ Release
    /\ UNCHANGED <<world, settings, asked>>

-----------------------------------------------------------------------------
(* The buttons. *)

\* A mutant of ApproveCheck: the button of an old page works once more.
ApproveCheckAgain(w, b) ==
    /\ Serving(w)
    /\ batch[b].status \in {"awaiting_approval", "sent"} /\ ~paused
    /\ asked' = [asked EXCEPT ![w] = b]
    /\ UNCHANGED <<world, rows, settings, lock, job>>

\* approve_batch up to its checks, which it makes before it takes the lock.
ApproveCheck(w, b) ==
    /\ Serving(w)
    /\ batch[b].status = "awaiting_approval" /\ ~paused
    /\ asked' = [asked EXCEPT ![w] = b]
    /\ UNCHANGED <<world, rows, settings, lock, job>>

\* The lock, then the first commit of send_batch.
ApproveSend(w) ==
    /\ asked[w] # 0
    /\ TakeLock(w, [IdleJob EXCEPT !.kind = "approve", !.phase = "sending", !.cur = asked[w]])
    /\ SetBatch(asked[w], Sending(batch[asked[w]]))
    /\ asked' = [asked EXCEPT ![w] = 0]
    /\ UNCHANGED <<world, item, listing, settings>>

ApproveGivesUp(w) ==
    /\ asked[w] # 0 /\ lock # NoOne
    /\ asked' = [asked EXCEPT ![w] = 0]
    /\ UNCHANGED <<world, rows, settings, lock, job>>

\* reject_batch has no condition; the button is on the page of a held batch,
\* which may have been loaded a while ago.
Reject(w, b) ==
    /\ Serving(w)
    /\ batch[b].mode = "needs_approval" /\ batch[b].status \notin {"absent", "pending", "rejected"}
    /\ SetBatch(b, [batch[b] EXCEPT !.status = "rejected"])
    /\ UNCHANGED <<world, item, listing, settings, lock, job, asked>>

MaxOf(ids) == CHOOSE b \in ids : \A c \in ids : c <= b

\* undo_batch and undo_last: the plan, the new batch and the commit of its
\* SENDING status.  An empty plan is refused.
UndoSend(w, b, ids) ==
    /\ Serving(w)
    /\ IsNext(b)
    /\ \/ \E c \in ids : /\ ids = {c} /\ batch[c].undoneBy = 0
                         /\ batch[c].status \in UndoableStatuses \cup {"failed"}
       \/ ids # {} /\ \E n \in 1..UndoCount : ids = LastSent(batch, n)
    /\ PlanSkus(batch, item, listing, ids) # {}
    /\ TakeLock(w, [IdleJob EXCEPT !.kind = "undo", !.phase = "sending", !.cur = b, !.targets = ids])
    /\ item' = [item EXCEPT ![b] = PlanItems(batch, item, listing, ids)]
    /\ SetBatch(b, Sending([NoBatch EXCEPT !.mode = "automatic", !.undoOf = MaxOf(ids)]))
    /\ UNCHANGED <<world, listing, settings, asked>>

\* The single commit with which approve and undo end, after a verification
\* pass that verify_after_push may switch off for an approval.
HandlerCommit ==
    /\ job.kind \in {"approve", "undo"} /\ SendOver
    /\ \E pass \in {job.kind = "undo", TRUE} :
       IF pass /\ AcceptedNow # {}
       THEN VerifyBatch(job.cur, SessionItems, BatchesAfterSend)
       ELSE /\ item' = [item EXCEPT ![job.cur] = SessionItems]
            /\ batch' = BatchesAfterSend
            /\ UNCHANGED listing
    /\ Release
    /\ UNCHANGED <<world, settings, asked>>

SetMode(w, m) ==
    /\ Serving(w) /\ m # mode
    /\ mode' = m
    /\ UNCHANGED <<world, rows, paused, lock, job, asked>>

TogglePause(w) ==
    /\ Pausing /\ Serving(w)
    /\ paused' = ~paused
    /\ UNCHANGED <<world, rows, mode, lock, job, asked>>

-----------------------------------------------------------------------------
(* The catalogue refresh. *)

RefreshStart ==
    /\ TakeLock(Scheduler, [IdleJob EXCEPT !.kind = "refresh", !.phase = "reporting", !.dry = TRUE,
                                           !.report = amazon])
    /\ UNCHANGED <<world, rows, settings, asked>>

\* A mutant of Reported: a SKU the report does not mention is taken for one it
\* mentions without a quantity.
ReportedAll(s) == TRUE

Reported(s) == job.report[s] # NoQty

\* A mutant of Settleable: the items of a partly failed batch are forgotten.
SettleableSent(b) == batch[b].status = "sent"

\* The batches whose open items confirm_from_catalogue looks at.
Settleable(b) == batch[b].status \in UndoableStatuses

\* The items of b after confirm_from_catalogue.  A SKU the report does not
\* mention is left alone.
Settled(b) == [s \in Skus |->
    IF Settleable(b) /\ s \in Open(item[b]) /\ Reported(s)
    THEN Judge(item[b][s], job.report[s], batch[b].aged) ELSE item[b][s]]

\* The report overwrites the cache and settles what is still open.
RefreshStore ==
    /\ At("refresh", "reporting")
    /\ listing' = [s \in Skus |-> IF Reported(s) THEN [quantity |-> job.report[s], present |-> TRUE]
                                  ELSE [listing[s] EXCEPT !.present = FALSE]]
    /\ item' = [b \in Batches |-> Settled(b)]
    /\ batch' = [b \in Batches |->
            IF /\ batch[b].status = "sent"
               /\ \E s \in Open(item[b]) : Reported(s)
               /\ \A s \in Skus : Settled(b)[s].result \notin {"accepted", "not_applied"}
            THEN [batch[b] EXCEPT !.status = "verified"] ELSE batch[b]]
    /\ Release
    /\ UNCHANGED <<world, settings, asked>>

-----------------------------------------------------------------------------
(* What the program does not control. *)

\* An exception ends the job: what its session had not committed is gone.
Abort ==
    /\ lock # NoOne
    /\ Release
    /\ UNCHANGED <<world, rows, settings, asked>>

\* A job runs in process w: the server gives the lock back when w dies.
Busy(w) == lock = w \/ (w = Main /\ lock = Scheduler)

\* A process is killed, with its handler and, in the main one, the scheduler.
Crash(w) ==
    /\ Busy(w) \/ asked[w] # 0
    /\ asked' = [asked EXCEPT ![w] = 0]
    /\ IF Busy(w) THEN Release ELSE UNCHANGED <<lock, job>>
    /\ UNCHANGED <<world, rows, settings>>

\* Amazon applies a change it accepted, or forgets it.
AmazonSettles(s) ==
    /\ queued[s] # NoQty
    /\ queued' = [queued EXCEPT ![s] = NoQty]
    /\ \/ amazon[s] # NoQty /\ amazon' = [amazon EXCEPT ![s] = queued[s]]
       \/ UNCHANGED amazon
    /\ UNCHANGED <<reached, rows, settings, lock, job, asked>>

SellerEdits(s, q) ==
    /\ s \in EditedSkus /\ amazon[s] \notin {q, NoQty}
    /\ amazon' = [amazon EXCEPT ![s] = q]
    /\ UNCHANGED <<queued, reached, rows, settings, lock, job, asked>>

SellerDeletes(s) ==
    /\ s \in DeletedSkus /\ amazon[s] # NoQty
    /\ amazon' = [amazon EXCEPT ![s] = NoQty]
    /\ UNCHANGED <<queued, reached, rows, settings, lock, job, asked>>

\* Six hours pass after the send of b; nothing asks unless an item is open.
Ages(b) ==
    /\ Open(item[b]) # {} /\ ~batch[b].aged
    /\ SetBatch(b, [batch[b] EXCEPT !.aged = TRUE])
    /\ UNCHANGED <<world, item, listing, settings, lock, job, asked>>

-----------------------------------------------------------------------------
RunStep ==
    \/ RunOpen \/ RunRecovered \/ RunEndsEarly \/ RunHold \/ RunSend \/ RunAccount \/ RunVerify
    \/ \E b \in Batches : RunRecover(b) \/ RunConfirm(b) \/ RunRecord(b)

SendStep == SendFeed \/ FeedRaises \/ \E s \in Skus : PatchItem(s) \/ PatchRaises(s)

WebStep(w) ==
    \/ RunStart(w) \/ ApproveSend(w) \/ ApproveGivesUp(w) \/ TogglePause(w)
    \/ \E b \in Batches : \/ ApproveCheck(w, b) \/ Reject(w, b)
                          \/ \E ids \in SUBSET Batches : UndoSend(w, b, ids)
    \/ \E m \in Modes : SetMode(w, m)

Environment ==
    \/ Abort
    \/ \E w \in Web : Crash(w)
    \/ \E b \in Batches : Ages(b)
    \/ \E s \in Skus : \/ AmazonSettles(s) \/ SellerDeletes(s)
                       \/ \E q \in Qty : SellerEdits(s, q)

Next ==
    \/ RunStart(Scheduler) \/ RunStep \/ SendStep \/ HandlerCommit
    \/ RefreshStart \/ RefreshStore
    \/ \E w \in Web : WebStep(w)
    \/ Environment

Spec == Init /\ [][Next]_vars

\* The steps the lock holder takes by itself.
JobStep == RunStep \/ SendStep \/ HandlerCommit \/ RefreshStore

\* A job that holds the lock goes on; the scheduler keeps starting both of its
\* jobs and finds the lock free every now and then; an exception does not hit
\* every run before the same statement; time passes.
Fairness ==
    /\ WF_vars(JobStep)
    /\ SF_vars(RunStart(Scheduler)) /\ SF_vars(RunOpen)
    /\ SF_vars(RefreshStart) /\ SF_vars(RefreshStore)
    /\ \A b \in Batches : SF_vars(RunRecover(b)) /\ WF_vars(Ages(b))

FairSpec == Spec /\ Fairness

-----------------------------------------------------------------------------
(* What must hold. *)

\* The undo trail is durable before the change: whatever reached Amazon has a
\* committed item that knows the previous quantity, in a batch whose committed
\* status says that something may have been sent.  (db.checkpoint)
SentIsOnRecord ==
    \A p \in reached :
        /\ item[p[1]][p[2]].prev \in Qty
        /\ batch[p[1]].status \notin {"absent", "pending", "awaiting_approval"}

\* A batch is not called verified while Amazon's answer to one of its accepted
\* items is open, however the sampling and the later passes fell.  (verify_batch)
VerifiedBatchIsClosed ==
    \A b \in Batches : batch[b].status = "verified" => Open(item[b]) = {}

\* Undo of a batch puts back every change that was confirmed, or accepted and
\* not looked at yet, whatever the catalogue cache shows.  (plan_rollback)
SentIsUndoable ==
    \A b \in Batches, s \in Skus :
        /\ batch[b].status \in UndoableStatuses
        /\ \/ item[b][s].result = "verified"
           \/ item[b][s].result = "accepted" /\ item[b][s].read = NoQty
        /\ item[b][s].prev # item[b][s].new
        /\ listing[s].present
        => s \in PlanSkus(batch, item, listing, {b})

\* No run records or sends a batch while the outcome of an interrupted send is
\* unknown.  (_recover_interrupted_batches)
NoSendOverWreckage ==
    At("run", "recorded") \/ (job.kind = "run" /\ job.phase \in {"sending", "stopped", "accounted"})
    => \A b \in Batches \ {job.cur} : batch[b].status # "sending"

\* An item becomes verified only when Amazon, read live or through the report
\* of this refresh, showed the quantity that was sent.  (verify_batch,
\* confirm_from_catalogue)
ConfirmedWasShown ==
    [][\A b \in Batches, s \in Skus :
          item'[b][s].result = "verified" /\ item[b][s].result # "verified"
          => item[b][s].new \in {amazon[s], job.report[s]}]_vars

\* An item is declared not applied only when the deadline has passed or the SKU
\* does not exist: an early read-back is no proof.  (VERIFY_CONFIRM_DEADLINE)
NoHastyFailure ==
    [][\A b \in Batches, s \in Skus :
          item'[b][s].result = "not_applied" /\ item[b][s].result # "not_applied"
          => batch[b].aged \/ amazon[s] = NoQty]_vars

\* A send that was interrupted does not stay SENDING: some later run settles
\* it.  (_recover_interrupted_batches)
InterruptedSendSettles ==
    \A b \in Batches : batch[b].status = "sending" ~> batch[b].status # "sending"

\* An accepted change of a batch that was sent does not stay open for ever,
\* even when no run reads it back again.  (confirm_from_catalogue)
AcceptedItemSettles ==
    \A b \in Batches, s \in Skus :
        item[b][s].result = "accepted" /\ batch[b].status \in UndoableStatuses
        ~> item[b][s].result # "accepted" \/ batch[b].status \notin UndoableStatuses
=============================================================================
