------------------------ MODULE PushLifecycle_proofs ------------------------
(***************************************************************************)
(* The safety properties of PushLifecycle, for any SKUs, quantities, number *)
(* of batches, web processes and limits, from the inductive invariant IInv *)
(* of PushInvariant.                                                       *)
(***************************************************************************)
EXTENDS PushInvariant, WellFoundedInduction, TLAPS

-----------------------------------------------------------------------------
(* What the judgements of PushData return, for rows of any batch.          *)

\* Any non-empty set of batch ids has a largest one: "the newest batch" of
\* plan_rollback is well defined.
LEMMA NewestExists ==
    ASSUME NEW S \in SUBSET Batches, S # {}
    PROVE  \E b \in S : \A c \in S : c <= b
<1> DEFINE T == {n \in Nat : \E b \in S : n = MaxBatch - b}
<1>1. T \subseteq Nat
    OBVIOUS
<1>2. T # {}
    <2>1. PICK b \in S : TRUE
        OBVIOUS
    <2>2. MaxBatch - b \in T
        BY <2>1, BatchAssumption DEF Batches
    <2> QED
        BY <2>2
<1>3. \E x \in T : \A y \in T : ~(<<y, x>> \in OpToRel(<, Nat))
    BY <1>1, <1>2, NatLessThanWellFounded, WFMin, Zenon
<1>4. PICK x \in T : \A y \in T : ~(y < x)
    <2>1. PICK x \in T : \A y \in T : ~(<<y, x>> \in OpToRel(<, Nat))
        BY <1>3
    <2>2. ASSUME NEW y \in T, y < x PROVE FALSE
        BY <1>1, <2>1, <2>2 DEF OpToRel
    <2> QED
        BY <2>2
<1>5. PICK b \in S : x = MaxBatch - b
    BY <1>4
<1>6. ASSUME NEW c \in S PROVE c <= b
    <2>1. MaxBatch - c \in T
        BY BatchAssumption DEF Batches
    <2> QED
        BY <1>4, <1>5, <2>1, BatchAssumption DEF Batches
<1> QED
    BY <1>6

\* The batch whose row the plan keeps for a SKU is one of those to undo, it
\* lists the SKU, and it has not been rolled back.
LEMMA NewestListingIsListed ==
    ASSUME NEW batches, NEW items, NEW ids \in SUBSET Batches, NEW s \in Skus,
           NewestListing(batches, items, ids, s) # 0
    PROVE  LET b == NewestListing(batches, items, ids, s)
           IN  b \in ids /\ batches[b].status # "rolled_back" /\ items[b][s].result # "absent"
<1> DEFINE with == {b \in ids : batches[b].status # "rolled_back" /\ s \in Listed(items[b])}
<1>1. with # {} /\ with \in SUBSET Batches
    BY DEF NewestListing
<1>2. \E b \in with : \A c \in with : c <= b
    BY <1>1, NewestExists
<1>3. NewestListing(batches, items, ids, s) = CHOOSE b \in with : \A c \in with : c <= b
    BY <1>1 DEF NewestListing
<1>4. NewestListing(batches, items, ids, s) \in with
    BY <1>2, <1>3
<1> QED
    BY <1>4 DEF Listed

\* Of a single batch that is not rolled back, its own row is the one kept.
LEMMA NewestListingOfOne ==
    ASSUME NEW batches, NEW items, NEW b \in Batches, NEW s \in Listed(items[b]),
           batches[b].status # "rolled_back"
    PROVE  NewestListing(batches, items, {b}, s) = b
<1> DEFINE with == {c \in {b} : batches[c].status # "rolled_back" /\ s \in Listed(items[c])}
<1>1. with = {b}
    OBVIOUS
<1>2. NewestListing(batches, items, {b}, s) = CHOOSE c \in with : \A d \in with : d <= c
    BY <1>1 DEF NewestListing
<1>3. b <= b
    BY DEF Batches
<1> QED
    BY <1>1, <1>2, <1>3

\* What Amazon is believed to show of a complete row is a quantity.
LEMMA BelievedIsQty ==
    ASSUME NEW row \in ItemRows, NEW q \in Qty, row.new \in Qty
    PROVE  Believed(row, q) \in Qty
BY DEF Believed, ItemRows

\* One read-back: the quantities of the row stay, what was shown is kept, only
\* an open item changes its result, "verified" is a read-back of what was sent,
\* and "not applied" is a missing SKU or a passed deadline.  (verify_batch)
LEMMA JudgeEffect ==
    ASSUME NEW row \in ItemRows, row.result = "accepted", NEW shown \in Qty \cup {NoQty},
           NEW aged \in BOOLEAN
    PROVE  /\ Judge(row, shown, aged) \in ItemRows
           /\ Judge(row, shown, aged).prev = row.prev
           /\ Judge(row, shown, aged).new = row.new
           /\ Judge(row, shown, aged).read = shown
           /\ Judge(row, shown, aged).result \in {"accepted", "verified", "not_applied"}
           /\ Judge(row, shown, aged).result = "verified" => shown = row.new
           /\ Judge(row, shown, aged).result = "not_applied" => shown = NoQty \/ aged
BY DEF Judge, ItemRows, ItemResults

\* Every item of the batch that carries out an undo is pending and complete.
LEMMA PlanItemsAreComplete ==
    ASSUME NEW batches, NEW items \in [Batches -> [Skus -> ItemRows]],
           NEW listings \in [Skus -> ListingRows], NEW ids \in SUBSET Batches,
           \A b \in Batches, s \in Skus : items[b][s].result # "absent" => items[b][s].new \in Qty
    PROVE  LET plan == PlanItems(batches, items, listings, ids)
           IN  /\ plan \in [Skus -> ItemRows]
               /\ \A s \in Skus : /\ plan[s].result \in {"absent", "pending"}
                                  /\ plan[s].result # "absent" => plan[s].prev \in Qty /\ plan[s].new \in Qty
<1> DEFINE plan == PlanItems(batches, items, listings, ids)
<1>1. NoItem \in ItemRows /\ NoItem.result = "absent"
    BY DEF NoItem, ItemRows, ItemResults
<1>2. ASSUME NEW s \in Skus, s \in PlanSkus(batches, items, listings, ids)
      PROVE  plan[s] \in ItemRows /\ plan[s].result = "pending" /\ plan[s].prev \in Qty /\ plan[s].new \in Qty
    <2> DEFINE b == NewestListing(batches, items, ids, s)
               row == items[b][s]
    <2>1. b # 0 /\ row.prev # NoQty
        BY <1>2 DEF PlanSkus, Reversible
    <2>2. b \in Batches /\ row.result # "absent"
        BY <2>1, NewestListingIsListed
    <2>3. row \in ItemRows /\ row.new \in Qty /\ row.prev \in Qty
        BY <2>1, <2>2 DEF ItemRows
    <2>4. Believed(row, listings[s].quantity) \in Qty
        BY <2>3, BelievedIsQty DEF ListingRows
    <2>5. plan[s] = NewItem(Believed(row, listings[s].quantity), row.prev)
        BY <1>2 DEF PlanItems
    <2> QED
        BY <2>3, <2>4, <2>5 DEF NewItem, ItemRows, ItemResults
<1>3. ASSUME NEW s \in Skus, s \notin PlanSkus(batches, items, listings, ids) PROVE plan[s] = NoItem
    BY <1>3 DEF PlanItems
<1>4. plan = [s \in Skus |-> plan[s]]
    BY DEF PlanItems
<1> QED
    BY <1>1, <1>2, <1>3, <1>4

-----------------------------------------------------------------------------
(* What a verification pass may do.                                        *)

\* What a sample may contain.
LEMMA SampleIsOpen ==
    ASSUME NEW before \in [Skus -> ItemRows], NEW checked \in Samples(before)
    PROVE  checked \subseteq Open(before)
BY DEF Samples

\* The rows a verification pass of b may leave: only open items of b change,
\* and b itself changes status only to VERIFIED, with nothing open.
LEMMA VerifyBatchEffect ==
    ASSUME TypeOK, NEW b \in Batches, NEW before \in [Skus -> ItemRows],
           NEW base \in [Batches -> BatchRows], VerifyBatch(b, before, base)
    PROVE  /\ item' \in [Batches -> [Skus -> ItemRows]]
           /\ batch' \in [Batches -> BatchRows]
           /\ listing' \in [Skus -> ListingRows]
           /\ \A c \in Batches \ {b} : item'[c] = item[c] /\ batch'[c] = base[c]
           /\ batch'[b].mode = base[b].mode
           /\ \/ batch'[b].status = base[b].status
              \/ batch'[b].status = "verified" /\ Open(item'[b]) = {} /\ Open(before) # {}
           /\ \A s \in Skus :
                 \/ item'[b][s] = before[s]
                 \/ /\ CanRead(b)
                    /\ before[s].result = "accepted"
                    /\ item'[b][s] = Judge(before[s], IF job.dry THEN before[s].new ELSE amazon[s],
                                           batch[b].aged)
<1>0. item \in [Batches -> [Skus -> ItemRows]] /\ listing \in [Skus -> ListingRows]
      /\ batch[b].aged \in BOOLEAN /\ amazon \in [Skus -> Qty \cup {NoQty}]
    BY DEF TypeOK, BatchRows
<1>1. CASE Open(before) = {} \/ ~CanRead(b)
    <2>1. item' = [item EXCEPT ![b] = before] /\ batch' = base /\ listing' = listing
        BY <1>1 DEF VerifyBatch
    <2> QED
        BY <1>0, <2>1
<1>2. CASE ~(Open(before) = {} \/ ~CanRead(b))
    <2> DEFINE shown(s) == IF job.dry THEN before[s].new ELSE amazon[s]
               after(seen) == [s \in Skus |-> IF s \in seen
                                              THEN Judge(before[s], shown(s), batch[b].aged)
                                              ELSE before[s]]
    <2>0. PICK checked \in Samples(before) : \E seen \in SUBSET checked :
            /\ item' = [item EXCEPT ![b] = after(seen)]
            /\ batch' = IF Promotes(after(seen), checked, seen)
                        THEN [base EXCEPT ![b].status = "verified"] ELSE base
            /\ listing' = [s \in Skus |-> IF s \in seen /\ after(seen)[s].result = "verified" /\ ~job.dry
                                          THEN [listing[s] EXCEPT !.quantity = amazon[s]]
                                          ELSE listing[s]]
        BY <1>2 DEF VerifyBatch
    <2>1. PICK seen \in SUBSET checked :
            /\ item' = [item EXCEPT ![b] = after(seen)]
            /\ batch' = IF Promotes(after(seen), checked, seen)
                        THEN [base EXCEPT ![b].status = "verified"] ELSE base
            /\ listing' = [s \in Skus |-> IF s \in seen /\ after(seen)[s].result = "verified" /\ ~job.dry
                                          THEN [listing[s] EXCEPT !.quantity = amazon[s]]
                                          ELSE listing[s]]
        BY <2>0
    <2>2. \A s \in seen : s \in Skus /\ before[s].result = "accepted"
        BY SampleIsOpen DEF Open
    <2>3. ASSUME NEW s \in seen
          PROVE  /\ shown(s) \in Qty \cup {NoQty}
                 /\ after(seen)[s] \in ItemRows
                 /\ after(seen)[s].result = "verified" /\ ~job.dry => amazon[s] \in Qty
        <3>1. before[s] \in ItemRows /\ before[s].result = "accepted" /\ s \in Skus
            BY <2>2
        <3>2. shown(s) \in Qty \cup {NoQty}
            BY <1>0, <3>1 DEF ItemRows
        <3>3. after(seen)[s] = Judge(before[s], shown(s), batch[b].aged)
            BY <3>1
        <3>4. Judge(before[s], shown(s), batch[b].aged) \in ItemRows
            BY <1>0, <3>1, <3>2, JudgeEffect
        <3>5. Judge(before[s], shown(s), batch[b].aged).result = "verified" => shown(s) # NoQty
            BY <3>1 DEF Judge, ItemRows
        <3> QED
            BY <1>0, <3>1, <3>2, <3>3, <3>4, <3>5
    <2>4. after(seen) \in [Skus -> ItemRows]
        BY <2>3
    <2>5. item' \in [Batches -> [Skus -> ItemRows]] /\ item'[b] = after(seen)
          /\ \A c \in Batches \ {b} : item'[c] = item[c]
        BY <1>0, <2>1, <2>4
    <2>6. listing' \in [Skus -> ListingRows]
        BY <1>0, <2>1, <2>3 DEF ListingRows
    <2>7. batch' \in [Batches -> BatchRows] /\ \A c \in Batches \ {b} : batch'[c] = base[c]
        BY <2>1 DEF BatchRows, BatchStatuses
    <2>8. /\ batch'[b].mode = base[b].mode
          /\ \/ batch'[b].status = base[b].status
             \/ batch'[b].status = "verified" /\ Open(item'[b]) = {} /\ Open(before) # {}
        <3>1. CASE Promotes(after(seen), checked, seen)
            <4>1. Open(item'[b]) = {} /\ Open(before) # {}
                BY <1>2, <2>5, <3>1 DEF Promotes
            <4>2. batch'[b].mode = base[b].mode /\ batch'[b].status = "verified"
                BY <2>1, <3>1 DEF BatchRows
            <4> QED
                BY <4>1, <4>2
        <3>2. CASE ~Promotes(after(seen), checked, seen)
            BY <2>1, <3>2
        <3> QED
            BY <3>1, <3>2
    <2>9. ASSUME NEW s \in Skus
          PROVE  \/ item'[b][s] = before[s]
                 \/ /\ CanRead(b)
                    /\ before[s].result = "accepted"
                    /\ item'[b][s] = Judge(before[s], shown(s), batch[b].aged)
        BY <1>2, <2>2, <2>5
    <2> QED
        BY <2>5, <2>6, <2>7, <2>8, <2>9
<1> QED
    BY <1>1, <1>2

-----------------------------------------------------------------------------
(* The invariant, one lemma per group of actions.                          *)

\* A step that leaves the rows and the reached changes alone keeps what the
\* invariant says of them.
LEMMA SameRows ==
    ASSUME IInv, UNCHANGED <<batch, item, reached>>
    PROVE  /\ batch' \in [Batches -> BatchRows] /\ item' \in [Batches -> [Skus -> ItemRows]]
           /\ reached' \subseteq Batches \X Skus
           /\ ItemsAreComplete' /\ UntouchedIsClean' /\ ReachedIsListed'
           /\ PracticeStaysPending' /\ VerifiedBatchIsClosed'
BY DEF IInv, TypeOK, ItemsAreComplete, Complete, UntouchedIsClean, ReachedIsListed, Untouched,
       PracticeStaysPending, VerifiedBatchIsClosed, Open

\* A job that does not run.
LEMMA IdleJobFields ==
    /\ IdleJob \in Jobs
    /\ IdleJob.kind = "none" /\ IdleJob.phase = "idle" /\ IdleJob.cur = 0 /\ IdleJob.targets = {}
    /\ \A s \in Skus : IdleJob.sess[s] = "none"
BY BatchAssumption DEF IdleJob, Jobs, Kinds, Phases, Nothing, SyncModes

\* A batch that does not exist.
LEMMA NoBatchFields == NoBatch \in BatchRows /\ NoBatch.status = "absent" /\ NoBatch.undoneBy = 0
BY BatchAssumption DEF NoBatch, BatchRows, BatchStatuses, SyncModes

\* A job that has just taken the lock and reads or writes no batch yet, and a
\* job that has just given the lock back, keep what the invariant says of jobs.
LEMMA FreshJob ==
    ASSUME job' \in Jobs, job'.phase \in {"idle", "opening", "reporting"},
           job'.cur = 0, job'.targets = {},
           \A s \in Skus : job'.sess[s] = "none"
    PROVE  JobFitsBatch' /\ NoWreckagePastRecovery'
BY DEF JobFitsBatch, NoWreckagePastRecovery

LEMMA ReleaseInv ==
    ASSUME Release
    PROVE  lock' = NoOne /\ job' \in Jobs /\ SessionEndsWithLock' /\ JobFitsBatch' /\ NoWreckagePastRecovery'
<1>1. job' = IdleJob /\ lock' = NoOne
    BY DEF Release
<1>2. JobFitsBatch' /\ NoWreckagePastRecovery'
    BY <1>1, IdleJobFields, FreshJob
<1> QED
    BY <1>1, <1>2, IdleJobFields DEF SessionEndsWithLock

\* A batch that somebody asked for, and the batches a job works on, exist.
LEMMA KnownBatches ==
    ASSUME TypeOK
    PROVE  /\ \A w \in Web : asked[w] # 0 => asked[w] \in Batches
           /\ \A b \in job.targets : b \in Batches
           /\ job.cur # 0 => job.cur \in Batches
BY BatchAssumption DEF TypeOK, Jobs, Batches

\* No step takes a batch back to where nobody had begun to send it, so what a
\* web process asked for stays held.
LEMMA AskedStaysHeld ==
    ASSUME IInv, asked' = asked,
           \A b \in Batches : batch[b].status \notin {"absent", "pending"} =>
                batch'[b].status \notin {"absent", "pending"}
    PROVE  AskedWasHeld'
<1>1. ASSUME NEW w \in Web, asked[w] # 0 PROVE batch'[asked[w]].status \notin {"absent", "pending"}
    <2>1. asked[w] \in Batches
        BY <1>1, KnownBatches DEF IInv
    <2> QED
        BY <1>1, <2>1 DEF IInv, AskedWasHeld
<1> QED
    BY <1>1 DEF AskedWasHeld

\* The steps that move a job without writing a row.
LEMMA RunStartInv ==
    ASSUME IInv, NEW a \in Actors, RunStart(a)
    PROVE  IInv'
<1> USE DEF RunStart, TakeLock, world, rows, settings
<1>1. ItemsAreComplete' /\ UntouchedIsClean' /\ ReachedIsListed'
      /\ PracticeStaysPending' /\ VerifiedBatchIsClosed'
    BY SameRows
<1>2. /\ job' \in Jobs /\ job'.phase = "opening" /\ job'.cur = 0 /\ job'.targets = {}
      /\ \A s \in Skus : job'.sess[s] = "none"
    BY IdleJobFields DEF Jobs, Kinds, Phases
<1>3. TypeOK'
    BY <1>2 DEF IInv, TypeOK
<1>4. SessionEndsWithLock'
    BY ActorAssumption DEF SessionEndsWithLock, Actors
<1>5. JobFitsBatch' /\ NoWreckagePastRecovery'
    BY <1>2, FreshJob
<1>6. AskedWasHeld'
    BY DEF IInv, AskedWasHeld
<1> QED
    BY <1>1, <1>3, <1>4, <1>5, <1>6 DEF IInv

LEMMA RefreshStartInv ==
    ASSUME IInv, RefreshStart
    PROVE  IInv'
<1> USE DEF RefreshStart, TakeLock, world, rows, settings
<1>1. ItemsAreComplete' /\ UntouchedIsClean' /\ ReachedIsListed'
      /\ PracticeStaysPending' /\ VerifiedBatchIsClosed'
    BY SameRows
<1>2. /\ job' \in Jobs /\ job'.phase = "reporting" /\ job'.cur = 0 /\ job'.targets = {}
      /\ \A s \in Skus : job'.sess[s] = "none"
    BY IdleJobFields DEF Jobs, Kinds, Phases, IInv, TypeOK
<1>3. TypeOK'
    BY <1>2 DEF IInv, TypeOK, Actors
<1>4. SessionEndsWithLock'
    BY ActorAssumption DEF SessionEndsWithLock
<1>5. JobFitsBatch' /\ NoWreckagePastRecovery'
    BY <1>2, FreshJob
<1>6. AskedWasHeld'
    BY DEF IInv, AskedWasHeld
<1> QED
    BY <1>1, <1>3, <1>4, <1>5, <1>6 DEF IInv

LEMMA RunOpenInv ==
    ASSUME IInv, RunOpen
    PROVE  IInv'
<1> USE DEF RunOpen, At, world, rows, settings
<1>1. ItemsAreComplete' /\ UntouchedIsClean' /\ ReachedIsListed'
      /\ PracticeStaysPending' /\ VerifiedBatchIsClosed'
    BY SameRows
<1>2. AskedWasHeld'
    BY DEF IInv, AskedWasHeld
<1>3. CASE paused
    <2>1. Release
        BY <1>3
    <2>2. TypeOK'
        BY <2>1, ReleaseInv DEF IInv, TypeOK, Actors
    <2> QED
        BY <1>1, <1>2, <2>1, <2>2, ReleaseInv DEF IInv
<1>4. CASE ~paused
    <2>1. job' = [job EXCEPT !.phase = "settling", !.mode = mode] /\ lock' = lock
        BY <1>4
    <2>2. job' \in Jobs /\ job'.phase = "settling" /\ job'.targets = job.targets /\ job'.sess = job.sess
          /\ job'.cur = job.cur
        BY <2>1 DEF IInv, TypeOK, Jobs, Phases
    <2>3. TypeOK'
        BY <2>1, <2>2 DEF IInv, TypeOK
    <2>4. SessionEndsWithLock'
        BY <2>1, IdleJobFields DEF IInv, SessionEndsWithLock
    <2>5. JobFitsBatch'
        BY <2>2 DEF IInv, JobFitsBatch, Untouched
    <2>6. NoWreckagePastRecovery'
        BY <2>2 DEF NoWreckagePastRecovery
    <2> QED
        BY <1>1, <1>2, <2>3, <2>4, <2>5, <2>6 DEF IInv
<1> QED
    BY <1>3, <1>4

\* A verification pass keeps what the invariant says of the rows, when the
\* items and statuses it starts from do.
LEMMA VerifyBatchInv ==
    ASSUME IInv, NEW b \in Batches, NEW before \in [Skus -> ItemRows],
           NEW base \in [Batches -> BatchRows], VerifyBatch(b, before, base), reached' = reached,
           \A s \in Skus : Complete(before[s]),
           \A s \in Skus : item[b][s].result # "absent" => before[s].result # "absent",
           base[b].status \notin {"absent", "pending", "awaiting_approval"} \/ before = item[b],
           \A c \in Batches : base[c].status \in {"absent", "pending", "awaiting_approval"} => Untouched(c),
           \A c \in Batches : base[c].status \notin {"absent", "pending"} => base[c].mode # "dry_run",
           \A c \in Batches \ {b} : base[c].status = "verified" => batch[c].status = "verified",
           base[b].status = "verified" => Open(before) = {}
    PROVE  /\ batch' \in [Batches -> BatchRows] /\ item' \in [Batches -> [Skus -> ItemRows]]
           /\ listing' \in [Skus -> ListingRows]
           /\ \A c \in Batches : batch'[c].mode = base[c].mode /\ batch'[c].status \in {base[c].status, "verified"}
           /\ \A c \in Batches, s \in Skus : item[c][s].result # "absent" => item'[c][s].result # "absent"
           /\ ItemsAreComplete' /\ UntouchedIsClean' /\ ReachedIsListed'
           /\ PracticeStaysPending' /\ VerifiedBatchIsClosed'
<1>0. TypeOK
    BY DEF IInv
<1>1. /\ item' \in [Batches -> [Skus -> ItemRows]]
      /\ batch' \in [Batches -> BatchRows]
      /\ listing' \in [Skus -> ListingRows]
      /\ \A c \in Batches \ {b} : item'[c] = item[c] /\ batch'[c] = base[c]
      /\ batch'[b].mode = base[b].mode
      /\ \/ batch'[b].status = base[b].status
         \/ batch'[b].status = "verified" /\ Open(item'[b]) = {} /\ Open(before) # {}
      /\ \A s \in Skus :
            \/ item'[b][s] = before[s]
            \/ /\ CanRead(b)
               /\ before[s].result = "accepted"
               /\ item'[b][s] = Judge(before[s], IF job.dry THEN before[s].new ELSE amazon[s],
                                      batch[b].aged)
    BY <1>0, VerifyBatchEffect
<1>2. ASSUME NEW s \in Skus
      PROVE  /\ Complete(item'[b][s])
             /\ before[s].result # "absent" => item'[b][s].result # "absent"
             /\ before[s].result # "accepted" => item'[b][s] = before[s]
    <2>1. CASE item'[b][s] = before[s]
        BY <2>1
    <2>2. CASE item'[b][s] # before[s]
        <3> DEFINE shown == IF job.dry THEN before[s].new ELSE amazon[s]
        <3>1. before[s].result = "accepted" /\ item'[b][s] = Judge(before[s], shown, batch[b].aged)
            BY <1>1, <2>2
        <3>2. shown \in Qty \cup {NoQty} /\ batch[b].aged \in BOOLEAN /\ before[s] \in ItemRows
            BY <1>0 DEF TypeOK, BatchRows, ItemRows
        <3> HIDE DEF shown
        <3>3. /\ Judge(before[s], shown, batch[b].aged).prev = before[s].prev
              /\ Judge(before[s], shown, batch[b].aged).new = before[s].new
              /\ Judge(before[s], shown, batch[b].aged).read = shown
              /\ Judge(before[s], shown, batch[b].aged).result \in {"accepted", "verified", "not_applied"}
              /\ Judge(before[s], shown, batch[b].aged).result = "verified" => shown = before[s].new
            BY <3>1, <3>2, JudgeEffect
        <3> QED
            BY <3>1, <3>3 DEF Complete
    <2> QED
        BY <2>1, <2>2
<1>3. ItemsAreComplete'
    BY <1>1, <1>2 DEF IInv, ItemsAreComplete
<1>4. \A c \in Batches, s \in Skus : item[c][s].result # "absent" => item'[c][s].result # "absent"
    BY <1>1, <1>2
<1>5. ReachedIsListed'
    BY <1>0, <1>4 DEF IInv, ReachedIsListed, TypeOK
<1>6. \A c \in Batches : batch'[c].status \in {base[c].status, "verified"} /\ batch'[c].mode = base[c].mode
    BY <1>1
<1>7. ASSUME NEW c \in Batches, Untouched(c)', NEW s \in Skus
      PROVE  item'[c][s].result \in {"absent", "pending"} /\ <<c, s>> \notin reached'
    <2>1. base[c].status \in {"absent", "pending", "awaiting_approval"} /\ Untouched(c)
        BY <1>6, <1>7 DEF Untouched
    <2>2. item[c][s].result \in {"absent", "pending"} /\ <<c, s>> \notin reached
        BY <2>1 DEF IInv, UntouchedIsClean
    <2>3. item'[c][s] = item[c][s]
        BY <1>1, <1>2, <2>1, <2>2
    <2> QED
        BY <2>2, <2>3
<1>8. PracticeStaysPending'
    <2>1. ASSUME NEW c \in Batches, batch'[c].status \notin {"absent", "pending"}
          PROVE  batch'[c].mode # "dry_run"
        <3>1. CASE batch'[c].status = base[c].status
            BY <1>6, <2>1, <3>1
        <3>2. CASE batch'[c].status # base[c].status
            <4>1. c = b /\ Open(before) # {}
                BY <1>1, <3>2
            <4>2. PICK s \in Skus : before[s].result = "accepted"
                BY <4>1 DEF Open
            <4>3. base[b].status \notin {"absent", "pending"}
                BY <4>2 DEF IInv, UntouchedIsClean, Untouched
            <4> QED
                BY <1>6, <4>1, <4>3
        <3> QED
            BY <3>1, <3>2
    <2> QED
        BY <2>1 DEF PracticeStaysPending
<1>9. ASSUME NEW c \in Batches, batch'[c].status = "verified" PROVE Open(item'[c]) = {}
    <2>1. CASE c # b
        <3>1. item'[c] = item[c] /\ batch[c].status = "verified"
            BY <1>1, <1>9, <2>1
        <3> QED
            BY <3>1 DEF IInv, VerifiedBatchIsClosed
    <2>2. CASE c = b /\ batch'[b].status = base[b].status
        BY <1>2, <1>9, <2>2 DEF Open
    <2>3. CASE c = b /\ batch'[b].status # base[b].status
        BY <1>1, <2>3
    <2> QED
        BY <2>1, <2>2, <2>3
<1> QED
    BY <1>1, <1>3, <1>4, <1>5, <1>7, <1>8, <1>9 DEF UntouchedIsClean, VerifiedBatchIsClosed

\* Recovery of one interrupted send.
LEMMA RunRecoverInv ==
    ASSUME IInv, NEW b \in Batches, RunRecover(b)
    PROVE  IInv'
<1> DEFINE never == {s \in Skus : item[b][s].result = "pending"}
           rest == [s \in Skus |-> IF s \in never THEN [item[b][s] EXCEPT !.result = "skipped"]
                                   ELSE item[b][s]]
           base == [batch EXCEPT ![b].status = IF never # {} THEN "partially_failed" ELSE "sent"]
<1>0. /\ batch \in [Batches -> BatchRows] /\ item \in [Batches -> [Skus -> ItemRows]]
      /\ batch[b].status = "sending" /\ job.phase = "settling" /\ job.kind = "run"
      /\ job' = job /\ lock' = lock /\ asked' = asked /\ reached' = reached
      /\ amazon' = amazon /\ queued' = queued /\ mode' = mode /\ paused' = paused
    BY DEF IInv, TypeOK, RunRecover, At, Stranded, world, settings
<1>1. VerifyBatch(b, rest, base)
    BY DEF RunRecover
<1>2. /\ rest \in [Skus -> ItemRows]
      /\ \A s \in Skus : /\ Complete(rest[s])
                         /\ item[b][s].result # "absent" => rest[s].result # "absent"
    <2>1. ASSUME NEW s \in Skus
          PROVE  /\ rest[s] \in ItemRows /\ Complete(rest[s])
                 /\ item[b][s].result # "absent" => rest[s].result # "absent"
        <3>1. item[b][s] \in ItemRows /\ Complete(item[b][s])
            BY <1>0 DEF IInv, ItemsAreComplete
        <3>2. CASE s \in never
            <4>1. rest[s] = [item[b][s] EXCEPT !.result = "skipped"]
                BY <3>2
            <4> QED
                BY <3>1, <3>2, <4>1 DEF Complete, ItemRows, ItemResults
        <3>3. CASE s \notin never
            BY <3>1, <3>3
        <3> QED
            BY <3>2, <3>3
    <2> QED
        BY <2>1
<1>3. /\ base \in [Batches -> BatchRows]
      /\ \A c \in Batches \ {b} : base[c] = batch[c]
      /\ base[b].status \in {"partially_failed", "sent"} /\ base[b].mode = batch[b].mode
    BY <1>0 DEF BatchRows, BatchStatuses
<1> HIDE DEF rest, base
<1>4. \A c \in Batches : base[c].status \notin {"absent", "pending"} => base[c].mode # "dry_run"
    BY <1>0, <1>3 DEF IInv, PracticeStaysPending
<1>5. /\ batch' \in [Batches -> BatchRows] /\ item' \in [Batches -> [Skus -> ItemRows]]
      /\ listing' \in [Skus -> ListingRows]
      /\ \A c \in Batches : batch'[c].mode = base[c].mode /\ batch'[c].status \in {base[c].status, "verified"}
      /\ ItemsAreComplete' /\ UntouchedIsClean' /\ ReachedIsListed'
      /\ PracticeStaysPending' /\ VerifiedBatchIsClosed'
    BY <1>0, <1>1, <1>2, <1>3, <1>4, VerifyBatchInv DEF Untouched
<1>6. TypeOK'
    BY <1>0, <1>5 DEF IInv, TypeOK
<1>7. SessionEndsWithLock'
    BY <1>0 DEF IInv, SessionEndsWithLock
<1>8. JobFitsBatch'
    <2>1. \A c \in Batches : ~Untouched(c) => ~Untouched(c)'
        BY <1>3, <1>5 DEF Untouched
    <2>2. \A c \in job'.targets : ~Untouched(c)'
        BY <1>0, <2>1, KnownBatches DEF IInv, JobFitsBatch
    <2>3. job'.cur = 0 /\ \A s \in Skus : job'.sess[s] = "none"
        BY <1>0 DEF IInv, JobFitsBatch
    <2> QED
        BY <1>0, <2>2, <2>3 DEF JobFitsBatch
<1>9. AskedWasHeld'
    BY <1>0, <1>3, <1>5, AskedStaysHeld
<1>10. NoWreckagePastRecovery'
    BY <1>0 DEF NoWreckagePastRecovery
<1> QED
    BY <1>5, <1>6, <1>7, <1>8, <1>9, <1>10 DEF IInv

\* Recovery is over.
LEMMA RunRecoveredInv ==
    ASSUME IInv, RunRecovered
    PROVE  IInv'
<1> USE DEF RunRecovered, At, world, rows, settings
<1>1. ItemsAreComplete' /\ UntouchedIsClean' /\ ReachedIsListed'
      /\ PracticeStaysPending' /\ VerifiedBatchIsClosed'
    BY SameRows
<1>2. /\ job' \in Jobs /\ job'.phase = "confirming" /\ job'.targets = Unconfirmed
      /\ job'.sess = job.sess /\ job'.cur = job.cur
    BY DEF IInv, TypeOK, Jobs, Phases, Unconfirmed
<1>3. TypeOK'
    BY <1>2 DEF IInv, TypeOK
<1>4. SessionEndsWithLock'
    BY IdleJobFields DEF IInv, SessionEndsWithLock
<1>5. JobFitsBatch'
    BY <1>2 DEF IInv, JobFitsBatch, Untouched, Unconfirmed
<1>6. AskedWasHeld' /\ NoWreckagePastRecovery'
    BY DEF IInv, AskedWasHeld, NoWreckagePastRecovery, Stranded
<1> QED
    BY <1>1, <1>3, <1>4, <1>5, <1>6 DEF IInv

\* Confirmation of one batch sent before.
LEMMA RunConfirmInv ==
    ASSUME IInv, NEW b \in Batches, RunConfirm(b)
    PROVE  IInv'
<1>0. /\ batch \in [Batches -> BatchRows] /\ item \in [Batches -> [Skus -> ItemRows]]
      /\ job \in Jobs /\ job.phase = "confirming" /\ job.kind = "run" /\ b \in job.targets
      /\ lock' = lock /\ asked' = asked /\ reached' = reached
      /\ amazon' = amazon /\ queued' = queued /\ mode' = mode /\ paused' = paused
    BY DEF IInv, TypeOK, RunConfirm, At, world, settings
<1>1. VerifyBatch(b, item[b], batch)
    BY DEF RunConfirm
<1>2. /\ job' \in Jobs /\ job'.phase = "confirming" /\ job'.targets \subseteq job.targets
      /\ job'.sess = job.sess /\ job'.kind = "run" /\ job'.cur = job.cur
    BY <1>0 DEF RunConfirm, Jobs
<1>3. /\ item[b] \in [Skus -> ItemRows] /\ \A s \in Skus : Complete(item[b][s])
      /\ \A c \in Batches : batch[c].status \notin {"absent", "pending"} => batch[c].mode # "dry_run"
      /\ batch[b].status = "verified" => Open(item[b]) = {}
    BY <1>0 DEF IInv, ItemsAreComplete, PracticeStaysPending, VerifiedBatchIsClosed
<1>5. /\ batch' \in [Batches -> BatchRows] /\ item' \in [Batches -> [Skus -> ItemRows]]
      /\ listing' \in [Skus -> ListingRows]
      /\ \A c \in Batches : batch'[c].mode = batch[c].mode /\ batch'[c].status \in {batch[c].status, "verified"}
      /\ ItemsAreComplete' /\ UntouchedIsClean' /\ ReachedIsListed'
      /\ PracticeStaysPending' /\ VerifiedBatchIsClosed'
    BY <1>0, <1>1, <1>3, VerifyBatchInv DEF Untouched
<1>6. TypeOK'
    BY <1>0, <1>2, <1>5 DEF IInv, TypeOK
<1>7. SessionEndsWithLock'
    BY <1>0, IdleJobFields DEF IInv, SessionEndsWithLock
<1>8. JobFitsBatch'
    BY <1>0, <1>2, <1>5 DEF IInv, JobFitsBatch, Untouched, Jobs
<1>9. AskedWasHeld'
    BY <1>0, <1>5, AskedStaysHeld
<1>10. NoWreckagePastRecovery'
    BY <1>0, <1>2, <1>5 DEF IInv, NoWreckagePastRecovery
<1> QED
    BY <1>5, <1>6, <1>7, <1>8, <1>9, <1>10 DEF IInv

\* A job that ends without writing anything: no news, an exception, a crash.
LEMMA ReleaseOnlyInv ==
    ASSUME IInv, Release, UNCHANGED <<amazon, queued, batch, item, listing, mode, paused, reached>>,
           asked' \in [Web -> 0..MaxBatch], \A w \in Web : asked'[w] \in {0, asked[w]}
    PROVE  IInv'
<1>1. ItemsAreComplete' /\ UntouchedIsClean' /\ ReachedIsListed'
      /\ PracticeStaysPending' /\ VerifiedBatchIsClosed'
    BY SameRows
<1>2. lock' = NoOne /\ job' \in Jobs /\ SessionEndsWithLock' /\ JobFitsBatch' /\ NoWreckagePastRecovery'
    BY ReleaseInv
<1>3. TypeOK'
    BY <1>2 DEF IInv, TypeOK
<1>4. AskedWasHeld'
    BY DEF IInv, AskedWasHeld
<1> QED
    BY <1>1, <1>2, <1>3, <1>4 DEF IInv

LEMMA RunEndsEarlyInv ==
    ASSUME IInv, RunEndsEarly
    PROVE  IInv'
BY ReleaseOnlyInv DEF RunEndsEarly, world, rows, settings, IInv, TypeOK

\* A new status of one batch keeps what the invariant says of the rows, if it
\* neither verifies the batch nor takes it back to before its send.
LEMMA SetBatchInv ==
    ASSUME IInv, NEW b \in Batches, NEW row \in BatchRows, SetBatch(b, row), UNCHANGED <<item, reached>>,
           row.status = "verified" => batch[b].status = "verified",
           row.status \in {"absent", "pending", "awaiting_approval"} => Untouched(b),
           row.status \notin {"absent", "pending"} => row.mode # "dry_run"
    PROVE  /\ batch' \in [Batches -> BatchRows] /\ batch'[b] = row
           /\ \A c \in Batches \ {b} : batch'[c] = batch[c]
           /\ ItemsAreComplete' /\ UntouchedIsClean' /\ ReachedIsListed'
           /\ PracticeStaysPending' /\ VerifiedBatchIsClosed'
<1>1. /\ batch' \in [Batches -> BatchRows] /\ batch'[b] = row
      /\ \A c \in Batches \ {b} : batch'[c] = batch[c]
    BY DEF SetBatch, IInv, TypeOK
<1>2. ItemsAreComplete'
    BY DEF IInv, ItemsAreComplete, Complete
<1>3. ReachedIsListed'
    BY DEF IInv, ReachedIsListed
<1>4. UntouchedIsClean'
    BY <1>1 DEF IInv, UntouchedIsClean, Untouched
<1>5. PracticeStaysPending'
    BY <1>1 DEF IInv, PracticeStaysPending
<1>6. VerifiedBatchIsClosed'
    BY <1>1 DEF IInv, VerifiedBatchIsClosed, Open
<1> QED
    BY <1>1, <1>2, <1>3, <1>4, <1>5, <1>6

\* The durability barrier: a new batch, nobody has begun to send it.
LEMMA RunRecordInv ==
    ASSUME IInv, NEW b \in Batches, RunRecord(b)
    PROVE  IInv'
<1> DEFINE row == [NoBatch EXCEPT !.status = "pending", !.mode = job.mode]
<1>0. /\ batch \in [Batches -> BatchRows] /\ item \in [Batches -> [Skus -> ItemRows]]
      /\ listing \in [Skus -> ListingRows] /\ job \in Jobs /\ job.cur = 0 /\ 0 \notin Batches
      /\ job.phase = "confirming" /\ job.kind = "run" /\ job.targets = {} /\ batch[b].status = "absent"
      /\ batch' = [batch EXCEPT ![b] = row] /\ job' = [job EXCEPT !.phase = "recorded", !.cur = b]
      /\ lock' = lock /\ asked' = asked /\ reached' = reached /\ listing' = listing
      /\ amazon' = amazon /\ queued' = queued /\ mode' = mode /\ paused' = paused
    BY DEF IInv, TypeOK, RunRecord, At, world, settings, IsNext, SetBatch, JobFitsBatch, Batches
<1>1. row \in BatchRows /\ row.status = "pending" /\ row.mode = job.mode
    BY <1>0, NoBatchFields DEF BatchRows, BatchStatuses, Jobs
<1> HIDE DEF row
<1>2. batch' \in [Batches -> BatchRows] /\ batch'[b] = row /\ \A c \in Batches \ {b} : batch'[c] = batch[c]
    BY <1>0, <1>1
<1>3. /\ item' \in [Batches -> [Skus -> ItemRows]] /\ \A c \in Batches \ {b} : item'[c] = item[c]
      /\ \A s \in Skus : item'[b][s].result \in {"absent", "pending"} /\ Complete(item'[b][s])
    <2>1. PICK chosen \in (SUBSET {s \in Skus : listing[s].present}) \ {{}}, want \in [Skus -> Qty \cup {NoQty}] :
             /\ \A s \in chosen : want[s] \in Qty
             /\ item' = [item EXCEPT ![b] = [s \in Skus |->
                   IF s \in chosen THEN NewItem(listing[s].quantity, want[s]) ELSE NoItem]]
        <3>1. PICK chosen \in (SUBSET {s \in Skus : listing[s].present}) \ {{}} :
                 \E want \in [chosen -> Qty] :
                    item' = [item EXCEPT ![b] = [s \in Skus |->
                       IF s \in chosen THEN NewItem(listing[s].quantity, want[s]) ELSE NoItem]]
            BY DEF RunRecord
        <3>2. PICK want \in [chosen -> Qty] :
                 item' = [item EXCEPT ![b] = [s \in Skus |->
                    IF s \in chosen THEN NewItem(listing[s].quantity, want[s]) ELSE NoItem]]
            BY <3>1
        <3> DEFINE wants == [s \in Skus |-> IF s \in chosen THEN want[s] ELSE NoQty]
        <3>3. wants \in [Skus -> Qty \cup {NoQty}] /\ \A s \in chosen : wants[s] = want[s] /\ wants[s] \in Qty
            OBVIOUS
        <3>4. [s \in Skus |-> IF s \in chosen THEN NewItem(listing[s].quantity, want[s]) ELSE NoItem]
              = [s \in Skus |-> IF s \in chosen THEN NewItem(listing[s].quantity, wants[s]) ELSE NoItem]
            BY <3>3
        <3> QED
            BY <3>2, <3>3, <3>4
    <2> DEFINE new == [s \in Skus |-> IF s \in chosen THEN NewItem(listing[s].quantity, want[s]) ELSE NoItem]
    <2>2. ASSUME NEW s \in Skus
          PROVE  new[s] \in ItemRows /\ new[s].result \in {"absent", "pending"} /\ Complete(new[s])
        <3>1. CASE s \in chosen
            <4>1. new[s] = NewItem(listing[s].quantity, want[s]) /\ want[s] \in Qty /\ listing[s].quantity \in Qty
                BY <1>0, <2>1, <3>1 DEF ListingRows
            <4> QED
                BY <4>1 DEF NewItem, ItemRows, ItemResults, Complete
        <3>2. CASE s \notin chosen
            BY <3>2 DEF NoItem, ItemRows, ItemResults, Complete
        <3> QED
            BY <3>1, <3>2
    <2>3. new \in [Skus -> ItemRows]
        BY <2>2
    <2> QED
        BY <1>0, <2>1, <2>2, <2>3
<1>4. job' \in Jobs /\ job'.phase = "recorded" /\ job'.cur = b /\ job'.targets = {}
      /\ job'.mode = job.mode /\ job'.sess = job.sess
    <2>1. b \in 0..MaxBatch
        BY BatchAssumption DEF Batches
    <2> QED
        BY <1>0, <2>1 DEF Jobs, Phases
<1>5. TypeOK'
    BY <1>0, <1>2, <1>3, <1>4 DEF IInv, TypeOK
<1>6. SessionEndsWithLock'
    BY <1>0, IdleJobFields DEF IInv, SessionEndsWithLock
<1>7. JobFitsBatch'
    BY <1>0, <1>1, <1>2, <1>4 DEF IInv, JobFitsBatch
<1>8. ItemsAreComplete'
    BY <1>3 DEF IInv, ItemsAreComplete
<1>9. UntouchedIsClean'
    BY <1>0, <1>2, <1>3 DEF IInv, UntouchedIsClean, Untouched
<1>10. ReachedIsListed'
    <2>1. ASSUME NEW p \in reached PROVE item'[p[1]][p[2]].result # "absent"
        <3>1. p[1] \in Batches /\ p[2] \in Skus /\ p = <<p[1], p[2]>>
            BY <2>1 DEF IInv, TypeOK
        <3>2. p[1] # b
            BY <1>0, <3>1 DEF IInv, UntouchedIsClean, Untouched
        <3> QED
            BY <1>3, <3>1, <3>2 DEF IInv, ReachedIsListed
    <2> QED
        BY <1>0, <2>1 DEF ReachedIsListed
<1>11. PracticeStaysPending' /\ VerifiedBatchIsClosed'
    BY <1>1, <1>2, <1>3 DEF IInv, PracticeStaysPending, VerifiedBatchIsClosed, Open
<1>12. AskedWasHeld' /\ NoWreckagePastRecovery'
    <2>1. AskedWasHeld'
        BY <1>0, <1>1, <1>2, AskedStaysHeld
    <2>2. NoWreckagePastRecovery'
        BY <1>0, <1>2, <1>4 DEF IInv, NoWreckagePastRecovery
    <2> QED
        BY <2>1, <2>2
<1> QED
    BY <1>5, <1>6, <1>7, <1>8, <1>9, <1>10, <1>11, <1>12 DEF IInv

LEMMA RunHoldInv ==
    ASSUME IInv, RunHold
    PROVE  IInv'
<1> DEFINE row == [batch[job.cur] EXCEPT !.status =
                      IF job.mode = "dry_run" THEN "pending" ELSE "awaiting_approval"]
<1>0. /\ batch \in [Batches -> BatchRows] /\ job.cur \in Batches /\ Release
      /\ batch[job.cur].status = "pending" /\ batch[job.cur].mode = job.mode
      /\ SetBatch(job.cur, row)
      /\ asked' = asked /\ reached' = reached /\ listing' = listing /\ item' = item
      /\ amazon' = amazon /\ queued' = queued /\ mode' = mode /\ paused' = paused
    BY DEF IInv, TypeOK, RunHold, At, world, settings, JobFitsBatch
<1>1. /\ row \in BatchRows /\ row.status \in {"pending", "awaiting_approval"}
      /\ row.status = "awaiting_approval" => row.mode # "dry_run"
    BY <1>0 DEF BatchRows, BatchStatuses
<1> HIDE DEF row
<1>2. /\ batch' \in [Batches -> BatchRows] /\ batch'[job.cur] = row
      /\ \A c \in Batches \ {job.cur} : batch'[c] = batch[c]
      /\ ItemsAreComplete' /\ UntouchedIsClean' /\ ReachedIsListed'
      /\ PracticeStaysPending' /\ VerifiedBatchIsClosed'
    BY <1>0, <1>1, SetBatchInv DEF Untouched
<1>3. lock' = NoOne /\ job' \in Jobs /\ SessionEndsWithLock' /\ JobFitsBatch' /\ NoWreckagePastRecovery'
    BY <1>0, ReleaseInv
<1>4. TypeOK'
    BY <1>0, <1>2, <1>3 DEF IInv, TypeOK
<1>5. AskedWasHeld'
    BY <1>0, <1>2, AskedStaysHeld
<1> QED
    BY <1>2, <1>3, <1>4, <1>5 DEF IInv

\* The row send_batch commits before its first call.
LEMMA SendingFields ==
    ASSUME NEW row \in BatchRows
    PROVE  Sending(row) \in BatchRows /\ Sending(row).status = "sending" /\ Sending(row).mode = row.mode
BY DEF Sending, BatchRows, BatchStatuses

LEMMA RunSendInv ==
    ASSUME IInv, RunSend
    PROVE  IInv'
<1>0. /\ batch \in [Batches -> BatchRows] /\ job.cur \in Batches /\ job \in Jobs
      /\ batch[job.cur].mode = "automatic" /\ job.phase = "recorded" /\ job.kind = "run"
      /\ SetBatch(job.cur, Sending(batch[job.cur])) /\ job' = [job EXCEPT !.phase = "sending"]
      /\ asked' = asked /\ reached' = reached /\ listing' = listing /\ item' = item /\ lock' = lock
      /\ amazon' = amazon /\ queued' = queued /\ mode' = mode /\ paused' = paused
    BY DEF IInv, TypeOK, RunSend, At, world, settings, JobFitsBatch
<1>1. /\ Sending(batch[job.cur]) \in BatchRows /\ Sending(batch[job.cur]).status = "sending"
      /\ Sending(batch[job.cur]).mode = "automatic"
    BY <1>0, SendingFields
<1>2. /\ batch' \in [Batches -> BatchRows] /\ batch'[job.cur].status = "sending"
      /\ \A c \in Batches \ {job.cur} : batch'[c] = batch[c]
      /\ ItemsAreComplete' /\ UntouchedIsClean' /\ ReachedIsListed'
      /\ PracticeStaysPending' /\ VerifiedBatchIsClosed'
    BY <1>0, <1>1, SetBatchInv
<1>3. /\ job' \in Jobs /\ job'.phase = "sending" /\ job'.cur = job.cur /\ job'.kind = "run"
      /\ job'.targets = job.targets /\ job'.sess = job.sess
    BY <1>0 DEF Jobs, Phases
<1>4. TypeOK'
    BY <1>0, <1>2, <1>3 DEF IInv, TypeOK
<1>5. AskedWasHeld'
    BY <1>0, <1>2, AskedStaysHeld
<1>6. SessionEndsWithLock'
    BY <1>0, IdleJobFields DEF IInv, SessionEndsWithLock
<1>7. JobFitsBatch'
    <2>1. \A b \in job'.targets : ~Untouched(b)'
        BY <1>2, <1>3, KnownBatches DEF IInv, JobFitsBatch, Untouched
    <2>2. \A s \in Skus : job'.sess[s] = "none"
        BY <1>0, <1>3 DEF IInv, JobFitsBatch
    <2> QED
        BY <1>0, <1>2, <1>3, <2>1, <2>2 DEF JobFitsBatch, Untouched
<1>8. NoWreckagePastRecovery'
    BY <1>0, <1>2, <1>3 DEF IInv, NoWreckagePastRecovery
<1> QED
    BY <1>2, <1>4, <1>5, <1>6, <1>7, <1>8 DEF IInv

\* Changes of the batch being sent may reach Amazon: it has begun, and they
\* have their rows.
LEMMA ReachInv ==
    ASSUME IInv, job.phase = "sending", UNCHANGED <<batch, item>>,
           NEW taken \in SUBSET Listed(item[job.cur]), Reach(taken) \/ UNCHANGED world
    PROVE  /\ amazon' = amazon /\ queued' \in [Skus -> Qty \cup {NoQty}]
           /\ reached' \subseteq Batches \X Skus
           /\ ItemsAreComplete' /\ UntouchedIsClean' /\ ReachedIsListed'
           /\ PracticeStaysPending' /\ VerifiedBatchIsClosed'
<1>1. job.cur \in Batches /\ ~Untouched(job.cur)
    BY DEF IInv, JobFitsBatch
<1>2. /\ amazon' = amazon /\ queued' \in [Skus -> Qty \cup {NoQty}]
      /\ reached' \subseteq reached \cup ({job.cur} \X taken)
    <2>1. CASE Reach(taken)
        <3>1. ASSUME NEW s \in taken PROVE item[job.cur][s].new \in Qty \cup {NoQty}
            BY <1>1, <3>1 DEF IInv, TypeOK, ItemRows, Listed
        <3> QED
            BY <2>1, <3>1 DEF Reach, IInv, TypeOK
    <2>2. CASE UNCHANGED world
        BY <2>2 DEF world, IInv, TypeOK
    <2> QED
        BY <2>1, <2>2
<1>3. reached' \subseteq Batches \X Skus
    <2>1. taken \subseteq Skus
        BY DEF Listed
    <2> QED
        BY <1>1, <1>2, <2>1 DEF IInv, TypeOK
<1>4. ItemsAreComplete' /\ PracticeStaysPending' /\ VerifiedBatchIsClosed'
    BY DEF IInv, ItemsAreComplete, Complete, PracticeStaysPending, VerifiedBatchIsClosed, Open
<1>5. UntouchedIsClean'
    BY <1>1, <1>2 DEF IInv, UntouchedIsClean, Untouched
<1>6. ReachedIsListed'
    <2>1. ASSUME NEW p \in reached' PROVE item[p[1]][p[2]].result # "absent"
        <3>1. CASE p \in reached
            BY <3>1 DEF IInv, ReachedIsListed
        <3>2. CASE p \in {job.cur} \X taken
            BY <3>2 DEF Listed
        <3> QED
            BY <1>2, <2>1, <3>1, <3>2
    <2> QED
        BY <2>1 DEF ReachedIsListed
<1> QED
    BY <1>2, <1>3, <1>4, <1>5, <1>6

\* While a batch is being sent, the session may note an answer for each of its
\* items.
LEMMA SendingInv ==
    ASSUME IInv, job.phase = "sending", UNCHANGED <<batch, item, listing, mode, paused, lock, asked>>,
           NEW taken \in SUBSET Listed(item[job.cur]), Reach(taken) \/ UNCHANGED world,
           job' \in Jobs, job'.kind = job.kind, job'.phase \in {"sending", "stopped"}, job'.cur = job.cur,
           job'.targets = job.targets,
           \A s \in Skus : job'.sess[s] # "none" => job.sess[s] # "none" \/ s \in Listed(item[job.cur])
    PROVE  IInv'
<1>1. /\ amazon' = amazon /\ queued' \in [Skus -> Qty \cup {NoQty}]
      /\ reached' \subseteq Batches \X Skus
      /\ ItemsAreComplete' /\ UntouchedIsClean' /\ ReachedIsListed'
      /\ PracticeStaysPending' /\ VerifiedBatchIsClosed'
    BY ReachInv
<1>2. TypeOK'
    BY <1>1 DEF IInv, TypeOK
<1>3. SessionEndsWithLock'
    BY IdleJobFields DEF IInv, SessionEndsWithLock
<1>4. JobFitsBatch'
    BY DEF IInv, JobFitsBatch, Untouched, Listed
<1>5. AskedWasHeld' /\ NoWreckagePastRecovery'
    BY DEF IInv, AskedWasHeld, NoWreckagePastRecovery
<1> QED
    BY <1>1, <1>2, <1>3, <1>4, <1>5 DEF IInv

LEMMA PatchItemInv ==
    ASSUME IInv, NEW s \in Skus, PatchItem(s)
    PROVE  IInv'
<1>1. /\ job \in Jobs /\ job.phase = "sending" /\ s \in Listed(item[job.cur])
      /\ UNCHANGED <<batch, item, listing, mode, paused, lock, asked>>
      /\ Reach({s}) \/ UNCHANGED world
    BY DEF PatchItem, IInv, TypeOK, rows, settings, Unsent
<1>2. PICK r \in {"accepted", "rejected"} : job' = [job EXCEPT !.sess[s] = r]
    BY DEF PatchItem
<1>3. /\ job' \in Jobs /\ job'.kind = job.kind /\ job'.phase = "sending" /\ job'.cur = job.cur
      /\ job'.targets = job.targets /\ \A t \in Skus \ {s} : job'.sess[t] = job.sess[t]
    BY <1>1, <1>2 DEF Jobs
<1> QED
    BY <1>1, <1>3, SendingInv

LEMMA PatchRaisesInv ==
    ASSUME IInv, NEW s \in Skus, PatchRaises(s)
    PROVE  IInv'
<1>1. /\ job \in Jobs /\ job.phase = "sending" /\ s \in Listed(item[job.cur])
      /\ UNCHANGED <<batch, item, listing, mode, paused, lock, asked>>
      /\ Reach({s}) \/ UNCHANGED world
      /\ job' = [job EXCEPT !.phase = "stopped"]
    BY DEF PatchRaises, IInv, TypeOK, rows, settings, Unsent
<1>2. /\ job' \in Jobs /\ job'.kind = job.kind /\ job'.phase = "stopped" /\ job'.cur = job.cur
      /\ job'.targets = job.targets /\ job'.sess = job.sess
    BY <1>1 DEF Jobs, Phases
<1> QED
    BY <1>1, <1>2, SendingInv

LEMMA SendFeedInv ==
    ASSUME IInv, SendFeed
    PROVE  IInv'
<1>1. /\ job \in Jobs /\ job.phase = "sending"
      /\ UNCHANGED <<batch, item, listing, mode, paused, lock, asked>>
    BY DEF SendFeed, IInv, TypeOK, rows, settings
<1>2. PICK refused \in SUBSET Listed(item[job.cur]) :
        /\ job' = [job EXCEPT !.sess = [s \in Skus |->
              IF s \notin Listed(item[job.cur]) THEN "none"
              ELSE IF s \in refused THEN "rejected" ELSE "accepted"]]
        /\ \/ UNCHANGED world
           \/ Reach(Existing(Listed(item[job.cur]) \ refused))
           \/ \E taken \in SUBSET Existing(Listed(item[job.cur])) : Reach(taken)
    BY DEF SendFeed
<1>3. PICK taken \in SUBSET Listed(item[job.cur]) : UNCHANGED world \/ Reach(taken)
    BY <1>2 DEF Existing
<1>4. /\ job' \in Jobs /\ job'.kind = job.kind /\ job'.phase = "sending" /\ job'.cur = job.cur
      /\ job'.targets = job.targets
      /\ \A s \in Skus : job'.sess[s] # "none" => s \in Listed(item[job.cur])
    BY <1>1, <1>2 DEF Jobs
<1> QED
    BY <1>1, <1>3, <1>4, SendingInv

LEMMA FeedRaisesInv ==
    ASSUME IInv, FeedRaises
    PROVE  IInv'
<1>1. /\ job.phase = "sending" /\ Release
      /\ UNCHANGED <<batch, item, listing, mode, paused, asked>>
      /\ \E taken \in SUBSET Existing(Listed(item[job.cur])) : Reach(taken)
    BY DEF FeedRaises, rows, settings
<1>2. PICK taken \in SUBSET Listed(item[job.cur]) : Reach(taken)
    BY <1>1 DEF Existing
<1>3. /\ amazon' = amazon /\ queued' \in [Skus -> Qty \cup {NoQty}]
      /\ reached' \subseteq Batches \X Skus
      /\ ItemsAreComplete' /\ UntouchedIsClean' /\ ReachedIsListed'
      /\ PracticeStaysPending' /\ VerifiedBatchIsClosed'
    BY <1>1, <1>2, ReachInv
<1>4. lock' = NoOne /\ job' \in Jobs /\ SessionEndsWithLock' /\ JobFitsBatch' /\ NoWreckagePastRecovery'
    BY <1>1, ReleaseInv
<1>5. TypeOK'
    BY <1>1, <1>3, <1>4 DEF IInv, TypeOK
<1>6. AskedWasHeld'
    BY <1>1 DEF IInv, AskedWasHeld
<1> QED
    BY <1>3, <1>4, <1>5, <1>6 DEF IInv

\* What the session of a job holds once its send is over: complete rows, a
\* status that says the batch was sent, and nothing newly verified.
LEMMA AfterSend ==
    ASSUME IInv, SendOver
    PROVE  /\ job.cur \in Batches /\ ~Untouched(job.cur)
           /\ SessionItems \in [Skus -> ItemRows]
           /\ \A s \in Skus : /\ Complete(SessionItems[s])
                              /\ SessionItems[s].prev = item[job.cur][s].prev
                              /\ SessionItems[s].new = item[job.cur][s].new
                              /\ item[job.cur][s].result # "absent" => SessionItems[s].result # "absent"
                              /\ SessionItems[s].result \in {item[job.cur][s].result, "accepted", "rejected"}
           /\ BatchesAfterSend \in [Batches -> BatchRows]
           /\ BatchesAfterSend[job.cur].status \in {"sent", "failed", "partially_failed"}
           /\ \A c \in Batches :
                 /\ BatchesAfterSend[c].mode = batch[c].mode
                 /\ c # job.cur => BatchesAfterSend[c].status \in {batch[c].status, "rolled_back"}
                 /\ BatchesAfterSend[c].status \in {"absent", "pending", "awaiting_approval"} <=> Untouched(c)
                 /\ BatchesAfterSend[c].status \notin {"absent", "pending"} => BatchesAfterSend[c].mode # "dry_run"
<1>1. /\ job.cur \in Batches /\ ~Untouched(job.cur) /\ job \in Jobs
      /\ batch \in [Batches -> BatchRows] /\ item \in [Batches -> [Skus -> ItemRows]]
      /\ \A c \in job.targets : ~Untouched(c)
      /\ \A s \in Skus : job.sess[s] # "none" => item[job.cur][s].result # "absent"
    BY DEF IInv, TypeOK, JobFitsBatch, SendOver
<1>2. ASSUME NEW s \in Skus
      PROVE  /\ SessionItems[s] \in ItemRows /\ Complete(SessionItems[s])
             /\ SessionItems[s].prev = item[job.cur][s].prev
             /\ SessionItems[s].new = item[job.cur][s].new
             /\ item[job.cur][s].result # "absent" => SessionItems[s].result # "absent"
             /\ SessionItems[s].result \in {item[job.cur][s].result, "accepted", "rejected"}
    <2>1. item[job.cur][s] \in ItemRows /\ Complete(item[job.cur][s])
        BY <1>1 DEF IInv, ItemsAreComplete
    <2>2. CASE job.sess[s] = "none"
        <3>1. SessionItems[s] = item[job.cur][s]
            BY <2>2 DEF SessionItems
        <3> QED
            BY <2>1, <3>1
    <2>3. CASE job.sess[s] # "none"
        <3>1. job.sess[s] \in {"accepted", "rejected"} /\ item[job.cur][s].result # "absent"
            BY <1>1, <2>3 DEF Jobs
        <3>2. SessionItems[s] = [item[job.cur][s] EXCEPT !.result = job.sess[s]]
            BY <2>3 DEF SessionItems
        <3> QED
            BY <2>1, <3>1, <3>2 DEF Complete, ItemRows, ItemResults
    <2> QED
        BY <2>2, <2>3
<1>3. SessionItems = [s \in Skus |-> SessionItems[s]]
    BY DEF SessionItems
<1>4. StatusAfterSend \in {"sent", "failed", "partially_failed"}
    BY DEF StatusAfterSend, SentStatus
<1>5. ASSUME NEW c \in Batches
      PROVE  /\ BatchesAfterSend[c] \in BatchRows /\ BatchesAfterSend[c].mode = batch[c].mode
             /\ c = job.cur => BatchesAfterSend[c].status \in {"sent", "failed", "partially_failed"}
             /\ c # job.cur => BatchesAfterSend[c].status \in {batch[c].status, "rolled_back"}
             /\ BatchesAfterSend[c].status \in {"absent", "pending", "awaiting_approval"} <=> Untouched(c)
    <2>0. batch[c] \in BatchRows /\ job.cur \in 0..MaxBatch
        BY <1>1 DEF Jobs
    <2>1. CASE c = job.cur
        <3>1. BatchesAfterSend[c] = [batch[c] EXCEPT !.status = StatusAfterSend]
            BY <2>1 DEF BatchesAfterSend
        <3> QED
            BY <1>1, <1>4, <2>0, <2>1, <3>1 DEF BatchRows, BatchStatuses
    <2>2. CASE c # job.cur /\ c \in job.targets
        <3>1. BatchesAfterSend[c] = [batch[c] EXCEPT !.status = "rolled_back", !.undoneBy = job.cur]
            BY <2>2 DEF BatchesAfterSend
        <3> QED
            BY <1>1, <2>0, <2>2, <3>1 DEF BatchRows, BatchStatuses
    <2>3. CASE c # job.cur /\ c \notin job.targets
        <3>1. BatchesAfterSend[c] = batch[c]
            BY <2>3 DEF BatchesAfterSend
        <3> QED
            BY <2>0, <2>3, <3>1 DEF Untouched
    <2> QED
        BY <2>1, <2>2, <2>3
<1>6. BatchesAfterSend = [c \in Batches |-> BatchesAfterSend[c]]
    BY DEF BatchesAfterSend
<1>7. ASSUME NEW c \in Batches, BatchesAfterSend[c].status \notin {"absent", "pending"}
      PROVE  BatchesAfterSend[c].mode # "dry_run"
    <2>1. batch[c].status \notin {"absent", "pending"}
        BY <1>1, <1>5, <1>7 DEF Untouched
    <2> QED
        BY <1>5, <2>1 DEF IInv, PracticeStaysPending
<1> QED
    BY <1>1, <1>2, <1>3, <1>5, <1>6, <1>7

\* Committing the session after a send, with or without a verification pass.
LEMMA CommitInv ==
    ASSUME IInv, SendOver, reached' = reached,
           \/ VerifyBatch(job.cur, SessionItems, BatchesAfterSend)
           \/ /\ item' = [item EXCEPT ![job.cur] = SessionItems]
              /\ batch' = BatchesAfterSend
              /\ listing' = listing
    PROVE  /\ batch' \in [Batches -> BatchRows] /\ item' \in [Batches -> [Skus -> ItemRows]]
           /\ listing' \in [Skus -> ListingRows]
           /\ \A c \in Batches : /\ ~Untouched(c) => ~Untouched(c)'
                                 /\ batch'[c].status \in {"absent", "pending"} =>
                                       batch[c].status \in {"absent", "pending"}
                                 /\ batch'[c].status = "sending" => c # job.cur /\ batch[c].status = "sending"
           /\ ItemsAreComplete' /\ UntouchedIsClean' /\ ReachedIsListed'
           /\ PracticeStaysPending' /\ VerifiedBatchIsClosed'
<1>1. /\ job.cur \in Batches /\ ~Untouched(job.cur)
      /\ SessionItems \in [Skus -> ItemRows]
      /\ \A s \in Skus : /\ Complete(SessionItems[s])
                         /\ item[job.cur][s].result # "absent" => SessionItems[s].result # "absent"
      /\ BatchesAfterSend \in [Batches -> BatchRows]
      /\ BatchesAfterSend[job.cur].status \in {"sent", "failed", "partially_failed"}
      /\ \A c \in Batches :
            /\ BatchesAfterSend[c].mode = batch[c].mode
            /\ c # job.cur => BatchesAfterSend[c].status \in {batch[c].status, "rolled_back"}
            /\ BatchesAfterSend[c].status \in {"absent", "pending", "awaiting_approval"} <=> Untouched(c)
            /\ BatchesAfterSend[c].status \notin {"absent", "pending"} => BatchesAfterSend[c].mode # "dry_run"
    BY AfterSend
<1>2. CASE VerifyBatch(job.cur, SessionItems, BatchesAfterSend)
    <2>1. /\ batch' \in [Batches -> BatchRows] /\ item' \in [Batches -> [Skus -> ItemRows]]
          /\ listing' \in [Skus -> ListingRows]
          /\ \A c \in Batches : batch'[c].status \in {BatchesAfterSend[c].status, "verified"}
          /\ ItemsAreComplete' /\ UntouchedIsClean' /\ ReachedIsListed'
          /\ PracticeStaysPending' /\ VerifiedBatchIsClosed'
        BY <1>1, <1>2, VerifyBatchInv
    <2> QED
        BY <1>1, <2>1 DEF Untouched
<1>3. CASE /\ item' = [item EXCEPT ![job.cur] = SessionItems]
           /\ batch' = BatchesAfterSend
           /\ listing' = listing
    <2>1. /\ item' \in [Batches -> [Skus -> ItemRows]] /\ item'[job.cur] = SessionItems
          /\ \A c \in Batches \ {job.cur} : item'[c] = item[c]
          /\ batch' \in [Batches -> BatchRows] /\ listing' \in [Skus -> ListingRows]
        BY <1>1, <1>3 DEF IInv, TypeOK
    <2>2. ItemsAreComplete'
        BY <1>1, <2>1 DEF IInv, ItemsAreComplete
    <2>3. UntouchedIsClean'
        BY <1>1, <1>3, <2>1 DEF IInv, UntouchedIsClean, Untouched
    <2>4. ReachedIsListed'
        <3>1. ASSUME NEW p \in reached PROVE item'[p[1]][p[2]].result # "absent"
            <4>1. p[1] \in Batches /\ p[2] \in Skus
                BY <3>1 DEF IInv, TypeOK
            <4> QED
                BY <1>1, <2>1, <4>1 DEF IInv, ReachedIsListed
        <3> QED
            BY <3>1 DEF ReachedIsListed
    <2>5. PracticeStaysPending'
        BY <1>1, <1>3 DEF PracticeStaysPending
    <2>6. ASSUME NEW c \in Batches, batch'[c].status = "verified" PROVE Open(item'[c]) = {}
        <3>1. c # job.cur /\ batch[c].status = "verified"
            BY <1>1, <1>3, <2>6
        <3> QED
            BY <2>1, <3>1 DEF IInv, VerifiedBatchIsClosed
    <2> QED
        BY <1>1, <1>3, <2>1, <2>2, <2>3, <2>4, <2>5, <2>6 DEF Untouched, VerifiedBatchIsClosed
<1> QED
    BY <1>2, <1>3

LEMMA RunAccountInv ==
    ASSUME IInv, RunAccount
    PROVE  IInv'
<1>0. /\ SendOver /\ job.kind = "run" /\ job \in Jobs /\ batch \in [Batches -> BatchRows]
      /\ item' = [item EXCEPT ![job.cur] = SessionItems]
      /\ batch' = BatchesAfterSend /\ asked' = asked /\ reached' = reached /\ listing' = listing
      /\ amazon' = amazon /\ queued' = queued /\ mode' = mode /\ paused' = paused
      /\ \/ Release
         \/ AcceptedNow # {} /\ job' = [job EXCEPT !.phase = "accounted"] /\ lock' = lock
    BY DEF IInv, TypeOK, RunAccount, world, settings
<1>1. /\ batch' \in [Batches -> BatchRows] /\ item' \in [Batches -> [Skus -> ItemRows]]
      /\ listing' \in [Skus -> ListingRows]
      /\ \A c \in Batches : /\ ~Untouched(c) => ~Untouched(c)'
                            /\ batch'[c].status \in {"absent", "pending"} =>
                                  batch[c].status \in {"absent", "pending"}
                            /\ batch'[c].status = "sending" => c # job.cur /\ batch[c].status = "sending"
      /\ ItemsAreComplete' /\ UntouchedIsClean' /\ ReachedIsListed'
      /\ PracticeStaysPending' /\ VerifiedBatchIsClosed'
    BY <1>0, CommitInv
<1>2. AskedWasHeld'
    BY <1>0, <1>1, AskedStaysHeld
<1>3. CASE Release
    <2>1. lock' = NoOne /\ job' \in Jobs /\ SessionEndsWithLock' /\ JobFitsBatch' /\ NoWreckagePastRecovery'
        BY <1>3, ReleaseInv
    <2>2. TypeOK'
        BY <1>0, <1>1, <2>1 DEF IInv, TypeOK
    <2> QED
        BY <1>1, <1>2, <2>1, <2>2 DEF IInv
<1>4. CASE job' = [job EXCEPT !.phase = "accounted"] /\ lock' = lock
    <2>1. /\ job' \in Jobs /\ job'.phase = "accounted" /\ job'.cur = job.cur /\ job'.kind = "run"
          /\ job'.targets = job.targets /\ job'.sess = job.sess
        BY <1>0, <1>4 DEF Jobs, Phases
    <2>2. TypeOK'
        BY <1>0, <1>1, <1>4, <2>1 DEF IInv, TypeOK
    <2>3. SessionEndsWithLock'
        BY <1>0, <1>4, IdleJobFields DEF IInv, SessionEndsWithLock, SendOver
    <2>4. JobFitsBatch'
        <3>1. job.cur \in Batches /\ ~Untouched(job.cur)
            BY <1>0, AfterSend
        <3>2. \A c \in job'.targets : ~Untouched(c)'
            BY <1>1, <2>1, KnownBatches DEF IInv, JobFitsBatch
        <3>3. \A s \in Skus : job'.sess[s] # "none" => item[job.cur][s].result # "absent"
            BY <2>1 DEF IInv, JobFitsBatch
        <3>4. \A s \in Skus : job'.sess[s] # "none" => item'[job.cur][s].result # "absent"
            <4>1. item'[job.cur] = SessionItems
                BY <1>0, <3>1 DEF IInv, TypeOK
            <4> QED
                BY <1>0, <3>3, <4>1, AfterSend
        <3> QED
            BY <1>1, <2>1, <3>1, <3>2, <3>4 DEF JobFitsBatch
    <2>5. NoWreckagePastRecovery'
        BY <1>0, <1>1, <2>1 DEF IInv, NoWreckagePastRecovery, SendOver
    <2> QED
        BY <1>1, <1>2, <2>2, <2>3, <2>4, <2>5 DEF IInv
<1> QED
    BY <1>0, <1>3, <1>4

LEMMA RunVerifyInv ==
    ASSUME IInv, RunVerify
    PROVE  IInv'
<1>0. /\ job.phase = "accounted" /\ job.cur \in Batches /\ Release
      /\ batch \in [Batches -> BatchRows] /\ item \in [Batches -> [Skus -> ItemRows]]
      /\ asked' = asked /\ reached' = reached
      /\ amazon' = amazon /\ queued' = queued /\ mode' = mode /\ paused' = paused
      /\ VerifyBatch(job.cur, item[job.cur], batch)
    BY DEF IInv, TypeOK, RunVerify, At, world, settings, JobFitsBatch
<1>1. /\ item[job.cur] \in [Skus -> ItemRows] /\ \A s \in Skus : Complete(item[job.cur][s])
      /\ \A c \in Batches : batch[c].status \notin {"absent", "pending"} => batch[c].mode # "dry_run"
      /\ batch[job.cur].status = "verified" => Open(item[job.cur]) = {}
    BY <1>0 DEF IInv, ItemsAreComplete, PracticeStaysPending, VerifiedBatchIsClosed
<1>2. /\ batch' \in [Batches -> BatchRows] /\ item' \in [Batches -> [Skus -> ItemRows]]
      /\ listing' \in [Skus -> ListingRows]
      /\ \A c \in Batches : batch'[c].status \in {batch[c].status, "verified"}
      /\ ItemsAreComplete' /\ UntouchedIsClean' /\ ReachedIsListed'
      /\ PracticeStaysPending' /\ VerifiedBatchIsClosed'
    BY <1>0, <1>1, VerifyBatchInv DEF Untouched
<1>3. lock' = NoOne /\ job' \in Jobs /\ SessionEndsWithLock' /\ JobFitsBatch' /\ NoWreckagePastRecovery'
    BY <1>0, ReleaseInv
<1>4. TypeOK'
    BY <1>0, <1>2, <1>3 DEF IInv, TypeOK
<1>5. AskedWasHeld'
    BY <1>0, <1>2, AskedStaysHeld
<1> QED
    BY <1>2, <1>3, <1>4, <1>5 DEF IInv

LEMMA HandlerCommitInv ==
    ASSUME IInv, HandlerCommit
    PROVE  IInv'
<1>0. /\ SendOver /\ Release /\ asked' = asked /\ reached' = reached
      /\ amazon' = amazon /\ queued' = queued /\ mode' = mode /\ paused' = paused
      /\ \/ VerifyBatch(job.cur, SessionItems, BatchesAfterSend)
         \/ /\ item' = [item EXCEPT ![job.cur] = SessionItems]
            /\ batch' = BatchesAfterSend
            /\ listing' = listing
    BY DEF HandlerCommit, world, settings
<1>1. /\ batch' \in [Batches -> BatchRows] /\ item' \in [Batches -> [Skus -> ItemRows]]
      /\ listing' \in [Skus -> ListingRows]
      /\ \A c \in Batches : batch'[c].status \in {"absent", "pending"} =>
                               batch[c].status \in {"absent", "pending"}
      /\ ItemsAreComplete' /\ UntouchedIsClean' /\ ReachedIsListed'
      /\ PracticeStaysPending' /\ VerifiedBatchIsClosed'
    BY <1>0, CommitInv
<1>2. AskedWasHeld'
    BY <1>0, <1>1, AskedStaysHeld
<1>3. lock' = NoOne /\ job' \in Jobs /\ SessionEndsWithLock' /\ JobFitsBatch' /\ NoWreckagePastRecovery'
    BY <1>0, ReleaseInv
<1>4. TypeOK'
    BY <1>0, <1>1, <1>3 DEF IInv, TypeOK
<1> QED
    BY <1>1, <1>2, <1>3, <1>4 DEF IInv

-----------------------------------------------------------------------------
(* The invariant: buttons, refresh and environment.                        *)

\* A step that changes neither rows nor the job keeps the invariant.
LEMMA SameJobInv ==
    ASSUME IInv, UNCHANGED <<batch, item, listing, reached, lock, job>>,
           amazon' \in [Skus -> Qty \cup {NoQty}], queued' \in [Skus -> Qty \cup {NoQty}],
           mode' \in SyncModes, paused' \in BOOLEAN, asked' \in [Web -> 0..MaxBatch],
           \A w \in Web : asked'[w] # 0 => batch[asked'[w]].status \notin {"absent", "pending"}
    PROVE  IInv'
<1>1. ItemsAreComplete' /\ UntouchedIsClean' /\ ReachedIsListed'
      /\ PracticeStaysPending' /\ VerifiedBatchIsClosed'
    BY SameRows
<1>2. TypeOK' /\ SessionEndsWithLock' /\ AskedWasHeld'
    BY DEF IInv, TypeOK, SessionEndsWithLock, AskedWasHeld, IdleJob, Nothing
<1>3. JobFitsBatch' /\ NoWreckagePastRecovery'
    BY DEF IInv, JobFitsBatch, Untouched, NoWreckagePastRecovery
<1> QED
    BY <1>1, <1>2, <1>3 DEF IInv

LEMMA ApproveCheckInv ==
    ASSUME IInv, NEW w \in Web, NEW b \in Batches, ApproveCheck(w, b)
    PROVE  IInv'
<1>1. b \in 0..MaxBatch
    BY BatchAssumption DEF Batches
<1>2. /\ asked' \in [Web -> 0..MaxBatch]
      /\ \A v \in Web : asked'[v] # 0 => batch[asked'[v]].status \notin {"absent", "pending"}
    BY <1>1 DEF ApproveCheck, IInv, TypeOK, AskedWasHeld
<1> QED
    BY <1>2, SameJobInv DEF ApproveCheck, IInv, TypeOK, world, rows, settings

LEMMA ApproveGivesUpInv ==
    ASSUME IInv, NEW w \in Web, ApproveGivesUp(w)
    PROVE  IInv'
<1>1. /\ asked' \in [Web -> 0..MaxBatch]
      /\ \A v \in Web : asked'[v] # 0 => batch[asked'[v]].status \notin {"absent", "pending"}
    <2>1. 0 \in 0..MaxBatch
        BY BatchAssumption
    <2> QED
        BY <2>1 DEF ApproveGivesUp, IInv, TypeOK, AskedWasHeld
<1> QED
    BY <1>1, SameJobInv DEF ApproveGivesUp, IInv, TypeOK, world, rows, settings

LEMMA SettingsInv ==
    ASSUME IInv, NEW w \in Web, TogglePause(w) \/ \E m \in Modes : SetMode(w, m)
    PROVE  IInv'
<1>1. /\ mode' \in SyncModes /\ paused' \in BOOLEAN
      /\ UNCHANGED <<amazon, queued, batch, item, listing, reached, lock, job, asked>>
    BY OperatorAssumption DEF TogglePause, SetMode, IInv, TypeOK, world, rows
<1> QED
    BY <1>1, SameJobInv DEF IInv, TypeOK, AskedWasHeld

LEMMA ApproveSendInv ==
    ASSUME IInv, NEW w \in Web, ApproveSend(w)
    PROVE  IInv'
<1> DEFINE b == asked[w]
<1>0. /\ batch \in [Batches -> BatchRows] /\ b \in Batches /\ b \in 0..MaxBatch
      /\ batch[b].status \notin {"absent", "pending"}
      /\ SetBatch(b, Sending(batch[b])) /\ lock' = w
      /\ job' = [IdleJob EXCEPT !.kind = "approve", !.phase = "sending", !.cur = b]
      /\ asked' = [asked EXCEPT ![w] = 0] /\ reached' = reached /\ listing' = listing /\ item' = item
      /\ amazon' = amazon /\ queued' = queued /\ mode' = mode /\ paused' = paused
    BY KnownBatches DEF IInv, TypeOK, ApproveSend, TakeLock, world, settings, AskedWasHeld
<1> HIDE DEF b
<1>1. /\ Sending(batch[b]) \in BatchRows /\ Sending(batch[b]).status = "sending"
      /\ Sending(batch[b]).mode # "dry_run"
    BY <1>0, SendingFields DEF IInv, PracticeStaysPending
<1>2. /\ batch' \in [Batches -> BatchRows] /\ batch'[b].status = "sending"
      /\ \A c \in Batches \ {b} : batch'[c] = batch[c]
      /\ ItemsAreComplete' /\ UntouchedIsClean' /\ ReachedIsListed'
      /\ PracticeStaysPending' /\ VerifiedBatchIsClosed'
    BY <1>0, <1>1, SetBatchInv
<1>3. /\ job' \in Jobs /\ job'.phase = "sending" /\ job'.cur = b /\ job'.kind = "approve"
      /\ job'.targets = {} /\ \A s \in Skus : job'.sess[s] = "none"
    BY <1>0, IdleJobFields DEF Jobs, Phases, Kinds
<1>4. asked' \in [Web -> 0..MaxBatch] /\ \A v \in Web : asked'[v] \in {0, asked[v]}
    BY <1>0, BatchAssumption DEF IInv, TypeOK
<1>5. TypeOK'
    BY <1>0, <1>2, <1>3, <1>4 DEF IInv, TypeOK, Actors
<1>6. AskedWasHeld'
    <2>1. ASSUME NEW v \in Web, asked'[v] # 0 PROVE batch'[asked'[v]].status \notin {"absent", "pending"}
        <3>1. asked'[v] = asked[v] /\ asked[v] \in Batches
            BY <1>4, <2>1, KnownBatches DEF IInv
        <3>2. batch[asked[v]].status \notin {"absent", "pending"}
            BY <2>1, <3>1 DEF IInv, AskedWasHeld
        <3> QED
            BY <1>2, <3>1, <3>2
    <2> QED
        BY <2>1 DEF AskedWasHeld
<1>7. SessionEndsWithLock'
    BY <1>0, ActorAssumption DEF SessionEndsWithLock
<1>8. JobFitsBatch' /\ NoWreckagePastRecovery'
    BY <1>0, <1>2, <1>3 DEF JobFitsBatch, NoWreckagePastRecovery, Untouched
<1> QED
    BY <1>2, <1>5, <1>6, <1>7, <1>8 DEF IInv

\* A new status of one batch while some job works on, or none.
LEMMA RowWhileJobInv ==
    ASSUME IInv, NEW b \in Batches, NEW row \in BatchRows, SetBatch(b, row),
           UNCHANGED <<amazon, queued, item, listing, mode, paused, lock, job, asked, reached>>,
           row.status # "verified" \/ batch[b].status = "verified", row.mode = batch[b].mode,
           row.status = batch[b].status \/ (row.status = "rejected" /\ batch[b].status # "pending"
                                               /\ batch[b].status # "absent")
    PROVE  IInv'
<1>1. /\ batch' \in [Batches -> BatchRows] /\ batch'[b] = row
      /\ \A c \in Batches \ {b} : batch'[c] = batch[c]
      /\ ItemsAreComplete' /\ UntouchedIsClean' /\ ReachedIsListed'
      /\ PracticeStaysPending' /\ VerifiedBatchIsClosed'
    BY SetBatchInv DEF Untouched, IInv, PracticeStaysPending
<1>2. \A c \in Batches : /\ ~Untouched(c) => ~Untouched(c)'
                         /\ batch'[c].status = "sending" => batch[c].status = "sending"
                         /\ batch[c].status = "pending" => batch'[c].status = "pending"
                         /\ batch'[c].mode = batch[c].mode
                         /\ batch[c].status \notin {"absent", "pending"} =>
                               batch'[c].status \notin {"absent", "pending"}
    BY <1>1 DEF Untouched
<1>3. TypeOK'
    BY <1>1 DEF IInv, TypeOK
<1>4. SessionEndsWithLock'
    BY DEF IInv, SessionEndsWithLock
<1>5. JobFitsBatch'
    <2>1. \A c \in job'.targets : ~Untouched(c)'
        BY <1>2, KnownBatches DEF IInv, JobFitsBatch
    <2> QED
        BY <1>2, <2>1 DEF IInv, JobFitsBatch
<1>6. AskedWasHeld'
    BY <1>2, AskedStaysHeld
<1>7. NoWreckagePastRecovery'
    BY <1>2 DEF IInv, NoWreckagePastRecovery
<1> QED
    BY <1>1, <1>3, <1>4, <1>5, <1>6, <1>7 DEF IInv

LEMMA RejectInv ==
    ASSUME IInv, NEW w \in Web, NEW b \in Batches, Reject(w, b)
    PROVE  IInv'
<1> DEFINE row == [batch[b] EXCEPT !.status = "rejected"]
<1>1. row \in BatchRows /\ row.status = "rejected" /\ row.mode = batch[b].mode
    BY DEF IInv, TypeOK, BatchRows, BatchStatuses
<1>2. /\ SetBatch(b, row) /\ batch[b].status \notin {"absent", "pending"}
      /\ UNCHANGED <<amazon, queued, item, listing, mode, paused, lock, job, asked, reached>>
    BY DEF Reject, world, settings
<1> HIDE DEF row
<1> QED
    BY <1>1, <1>2, RowWhileJobInv

LEMMA AgesInv ==
    ASSUME IInv, NEW b \in Batches, Ages(b)
    PROVE  IInv'
<1> DEFINE row == [batch[b] EXCEPT !.aged = TRUE]
<1>1. row \in BatchRows /\ row.status = batch[b].status /\ row.mode = batch[b].mode
    BY DEF IInv, TypeOK, BatchRows
<1>2. /\ SetBatch(b, row)
      /\ UNCHANGED <<amazon, queued, item, listing, mode, paused, lock, job, asked, reached>>
    BY DEF Ages, world, settings
<1> HIDE DEF row
<1> QED
    BY <1>1, <1>2, RowWhileJobInv

\* The newest of the batches an undo is asked for is one of them.
LEMMA MaxOfIsOne ==
    ASSUME NEW ids \in SUBSET Batches, ids # {}
    PROVE  MaxOf(ids) \in ids
<1>1. \E b \in ids : \A c \in ids : c <= b
    BY NewestExists
<1> QED
    BY <1>1 DEF MaxOf

LEMMA UndoSendInv ==
    ASSUME IInv, NEW w \in Web, NEW b \in Batches, NEW ids \in SUBSET Batches, UndoSend(w, b, ids)
    PROVE  IInv'
<1> DEFINE row == [NoBatch EXCEPT !.mode = "automatic", !.undoOf = MaxOf(ids)]
           plan == PlanItems(batch, item, listing, ids)
<1>0. /\ batch \in [Batches -> BatchRows] /\ item \in [Batches -> [Skus -> ItemRows]]
      /\ listing \in [Skus -> ListingRows]
      /\ batch[b].status = "absent" /\ Untouched(b) /\ lock' = w
      /\ batch' = [batch EXCEPT ![b] = Sending(row)] /\ item' = [item EXCEPT ![b] = plan]
      /\ job' = [IdleJob EXCEPT !.kind = "undo", !.phase = "sending", !.cur = b, !.targets = ids]
      /\ asked' = asked /\ reached' = reached /\ listing' = listing
      /\ amazon' = amazon /\ queued' = queued /\ mode' = mode /\ paused' = paused
    BY DEF IInv, TypeOK, UndoSend, TakeLock, world, settings, IsNext, SetBatch, Untouched
<1>1. ids # {} /\ \A c \in ids : ~Untouched(c)
    <2>1. CASE \E c \in ids : ids = {c} /\ batch[c].status \in UndoableStatuses \cup {"failed"}
        BY <2>1 DEF UndoableStatuses, Untouched
    <2>2. CASE ids # {} /\ \E n \in 1..UndoCount : ids = LastSent(batch, n)
        <3>1. \A c \in ids : batch[c].status \in UndoableStatuses
            BY <2>2 DEF LastSent
        <3> QED
            BY <2>2, <3>1 DEF UndoableStatuses, Untouched
    <2> QED
        BY <2>1, <2>2 DEF UndoSend
<1>2. row \in BatchRows /\ row.mode = "automatic"
    <2>1. MaxOf(ids) \in 0..MaxBatch
        <3>1. MaxOf(ids) \in Batches
            BY <1>1, MaxOfIsOne
        <3> QED
            BY <3>1, BatchAssumption DEF Batches
    <2> QED
        BY <2>1, NoBatchFields DEF BatchRows, SyncModes
<1>3. \A c \in Batches, s \in Skus : item[c][s].result # "absent" => item[c][s].new \in Qty
    BY DEF IInv, ItemsAreComplete, Complete
<1>4. /\ plan \in [Skus -> ItemRows]
      /\ \A s \in Skus : /\ plan[s].result \in {"absent", "pending"}
                         /\ plan[s].result # "absent" => plan[s].prev \in Qty /\ plan[s].new \in Qty
    BY <1>0, <1>3, PlanItemsAreComplete
<1> HIDE DEF row, plan
<1>5. Sending(row) \in BatchRows /\ Sending(row).status = "sending" /\ Sending(row).mode = "automatic"
    BY <1>2, SendingFields
<1>6. /\ batch' \in [Batches -> BatchRows] /\ batch'[b] = Sending(row)
      /\ \A c \in Batches \ {b} : batch'[c] = batch[c] /\ item'[c] = item[c]
      /\ item' \in [Batches -> [Skus -> ItemRows]] /\ item'[b] = plan
    BY <1>0, <1>4, <1>5
<1>7. /\ job' \in Jobs /\ job'.phase = "sending" /\ job'.cur = b /\ job'.kind = "undo"
      /\ job'.targets = ids /\ \A s \in Skus : job'.sess[s] = "none"
    <2>1. b \in 0..MaxBatch
        BY BatchAssumption DEF Batches
    <2> QED
        BY <1>0, <2>1, IdleJobFields DEF Jobs, Phases, Kinds
<1>8. TypeOK'
    BY <1>0, <1>6, <1>7 DEF IInv, TypeOK, Actors
<1>9. ItemsAreComplete'
    BY <1>4, <1>6 DEF IInv, ItemsAreComplete, Complete
<1>10. UntouchedIsClean'
    BY <1>0, <1>5, <1>6 DEF IInv, UntouchedIsClean, Untouched
<1>11. ReachedIsListed'
    <2>1. ASSUME NEW p \in reached PROVE item'[p[1]][p[2]].result # "absent"
        <3>1. p[1] \in Batches /\ p[2] \in Skus /\ p = <<p[1], p[2]>>
            BY <2>1 DEF IInv, TypeOK
        <3>2. p[1] # b
            BY <1>0, <3>1 DEF IInv, UntouchedIsClean
        <3> QED
            BY <1>6, <3>1, <3>2 DEF IInv, ReachedIsListed
    <2> QED
        BY <1>0, <2>1 DEF ReachedIsListed
<1>12. PracticeStaysPending' /\ VerifiedBatchIsClosed'
    BY <1>5, <1>6 DEF IInv, PracticeStaysPending, VerifiedBatchIsClosed, Open
<1>13. AskedWasHeld'
    BY <1>0, <1>5, <1>6, AskedStaysHeld
<1>14. SessionEndsWithLock'
    BY <1>0, ActorAssumption DEF SessionEndsWithLock
<1>15. JobFitsBatch' /\ NoWreckagePastRecovery'
    BY <1>0, <1>1, <1>5, <1>6, <1>7 DEF JobFitsBatch, NoWreckagePastRecovery, Untouched
<1> QED
    BY <1>8, <1>9, <1>10, <1>11, <1>12, <1>13, <1>14, <1>15 DEF IInv

\* What the catalogue refresh makes of one item.
LEMMA SettledEffect ==
    ASSUME TypeOK, NEW b \in Batches, NEW s \in Skus
    PROVE  /\ Settled(b)[s] = item[b][s]
              \/ /\ item[b][s].result = "accepted" /\ job.report[s] \in Qty
                 /\ Settled(b)[s] = Judge(item[b][s], job.report[s], batch[b].aged)
           /\ Settled(b)[s] \in ItemRows
           /\ Complete(item[b][s]) => Complete(Settled(b)[s])
           /\ item[b][s].result # "absent" => Settled(b)[s].result # "absent"
<1>1. item[b][s] \in ItemRows /\ batch[b].aged \in BOOLEAN /\ job.report[s] \in Qty \cup {NoQty}
    BY DEF TypeOK, BatchRows, Jobs
<1>2. CASE Settleable(b) /\ s \in Open(item[b]) /\ Reported(s)
    <2>1. Settled(b)[s] = Judge(item[b][s], job.report[s], batch[b].aged)
        BY <1>2 DEF Settled
    <2>2. item[b][s].result = "accepted" /\ job.report[s] \in Qty
        BY <1>1, <1>2 DEF Open, Reported
    <2>3. /\ Judge(item[b][s], job.report[s], batch[b].aged) \in ItemRows
          /\ Judge(item[b][s], job.report[s], batch[b].aged).prev = item[b][s].prev
          /\ Judge(item[b][s], job.report[s], batch[b].aged).new = item[b][s].new
          /\ Judge(item[b][s], job.report[s], batch[b].aged).read = job.report[s]
          /\ Judge(item[b][s], job.report[s], batch[b].aged).result \in {"accepted", "verified", "not_applied"}
          /\ Judge(item[b][s], job.report[s], batch[b].aged).result = "verified" => job.report[s] = item[b][s].new
        BY <1>1, <2>2, JudgeEffect
    <2> QED
        BY <2>1, <2>2, <2>3 DEF Complete
<1>3. CASE ~(Settleable(b) /\ s \in Open(item[b]) /\ Reported(s))
    <2>1. Settled(b)[s] = item[b][s]
        BY <1>3 DEF Settled
    <2> QED
        BY <1>1, <2>1
<1> QED
    BY <1>2, <1>3

LEMMA RefreshStoreInv ==
    ASSUME IInv, RefreshStore
    PROVE  IInv'
<1>0. /\ TypeOK /\ Release /\ asked' = asked /\ reached' = reached
      /\ amazon' = amazon /\ queued' = queued /\ mode' = mode /\ paused' = paused
      /\ item' = [b \in Batches |-> Settled(b)]
    BY DEF IInv, RefreshStore, world, settings
<1>1. listing' \in [Skus -> ListingRows]
    <2>1. \A s \in Skus : job.report[s] \in Qty \cup {NoQty} /\ listing[s] \in ListingRows
        BY <1>0 DEF TypeOK, Jobs
    <2>2. ASSUME NEW s \in Skus
          PROVE  (IF Reported(s) THEN [quantity |-> job.report[s], present |-> TRUE]
                  ELSE [listing[s] EXCEPT !.present = FALSE]) \in ListingRows
        BY <2>1 DEF Reported, ListingRows
    <2> QED
        BY <2>2 DEF RefreshStore
<1>2. ASSUME NEW b \in Batches
      PROVE  /\ batch'[b] \in BatchRows /\ batch'[b].mode = batch[b].mode
             /\ \/ batch'[b].status = batch[b].status
                \/ batch[b].status = "sent" /\ batch'[b].status = "verified" /\ Open(item'[b]) = {}
    <2>1. batch[b] \in BatchRows
        BY <1>0 DEF TypeOK
    <2>2. CASE /\ batch[b].status = "sent"
               /\ \E s \in Open(item[b]) : Reported(s)
               /\ \A s \in Skus : Settled(b)[s].result \notin {"accepted", "not_applied"}
        <3>1. batch'[b] = [batch[b] EXCEPT !.status = "verified"]
            BY <2>2 DEF RefreshStore
        <3>2. Open(item'[b]) = {}
            BY <1>0, <2>2 DEF Open
        <3> QED
            BY <2>1, <2>2, <3>1, <3>2 DEF BatchRows, BatchStatuses
    <2>3. CASE ~(/\ batch[b].status = "sent"
                 /\ \E s \in Open(item[b]) : Reported(s)
                 /\ \A s \in Skus : Settled(b)[s].result \notin {"accepted", "not_applied"})
        <3>1. batch'[b] = batch[b]
            BY <2>3 DEF RefreshStore
        <3> QED
            BY <2>1, <3>1
    <2> QED
        BY <2>2, <2>3
<1>3. batch' \in [Batches -> BatchRows]
    BY <1>2 DEF RefreshStore
<1>4. item' \in [Batches -> [Skus -> ItemRows]]
    <2>1. ASSUME NEW b \in Batches PROVE Settled(b) \in [Skus -> ItemRows]
        <3>1. \A s \in Skus : Settled(b)[s] \in ItemRows
            BY <1>0, SettledEffect
        <3> QED
            BY <3>1 DEF Settled
    <2> QED
        BY <1>0, <2>1
<1>5. lock' = NoOne /\ job' \in Jobs /\ SessionEndsWithLock' /\ JobFitsBatch' /\ NoWreckagePastRecovery'
    BY <1>0, ReleaseInv
<1>6. TypeOK'
    BY <1>0, <1>1, <1>3, <1>4, <1>5 DEF TypeOK
<1>7. ItemsAreComplete'
    BY <1>0, SettledEffect DEF IInv, ItemsAreComplete
<1>8. UntouchedIsClean'
    <2>1. ASSUME NEW b \in Batches, Untouched(b)', NEW s \in Skus
          PROVE  item'[b][s].result \in {"absent", "pending"} /\ <<b, s>> \notin reached'
        <3>1. Untouched(b)
            BY <1>2, <2>1 DEF Untouched
        <3>2. item[b][s].result \in {"absent", "pending"} /\ <<b, s>> \notin reached
            BY <3>1 DEF IInv, UntouchedIsClean
        <3>3. Settled(b)[s] = item[b][s]
            BY <1>0, <3>2, SettledEffect
        <3> QED
            BY <1>0, <3>2, <3>3
    <2> QED
        BY <2>1 DEF UntouchedIsClean
<1>9. ReachedIsListed'
    <2>1. ASSUME NEW p \in reached PROVE item'[p[1]][p[2]].result # "absent"
        <3>1. p[1] \in Batches /\ p[2] \in Skus
            BY <1>0, <2>1 DEF TypeOK
        <3> QED
            BY <1>0, <3>1, SettledEffect DEF IInv, ReachedIsListed
    <2> QED
        BY <1>0, <2>1 DEF ReachedIsListed
<1>10. PracticeStaysPending'
    BY <1>2 DEF IInv, PracticeStaysPending
<1>11. VerifiedBatchIsClosed'
    <2>1. ASSUME NEW b \in Batches, batch'[b].status = "verified" PROVE Open(item'[b]) = {}
        <3>1. CASE batch[b].status = "verified"
            <4>1. \A s \in Skus : item[b][s].result # "accepted"
                BY <3>1 DEF IInv, VerifiedBatchIsClosed, Open
            <4>2. \A s \in Skus : item'[b][s] = item[b][s]
                BY <1>0, <4>1, SettledEffect
            <4> QED
                BY <4>1, <4>2 DEF Open
        <3>2. CASE batch[b].status # "verified"
            BY <1>2, <2>1, <3>2
        <3> QED
            BY <3>1, <3>2
    <2> QED
        BY <2>1 DEF VerifiedBatchIsClosed
<1>12. AskedWasHeld'
    BY <1>0, <1>2, AskedStaysHeld
<1> QED
    BY <1>5, <1>6, <1>7, <1>8, <1>9, <1>10, <1>11, <1>12 DEF IInv

LEMMA EnvironmentInv ==
    ASSUME IInv, Environment
    PROVE  IInv'
<1>1. CASE Abort
    BY <1>1, ReleaseOnlyInv DEF Abort, world, rows, settings, IInv, TypeOK
<1>2. CASE \E w \in Web : Crash(w)
    <2>1. PICK w \in Web : Crash(w)
        BY <1>2
    <2>2. 0 \in 0..MaxBatch
        BY BatchAssumption
    <2>3. asked' \in [Web -> 0..MaxBatch] /\ \A v \in Web : asked'[v] \in {0, asked[v]}
        BY <2>1, <2>2 DEF Crash, IInv, TypeOK
    <2>4. UNCHANGED <<amazon, queued, batch, item, listing, mode, paused, reached>>
        BY <2>1 DEF Crash, world, rows, settings
    <2>5. CASE Busy(w)
        BY <2>1, <2>3, <2>4, <2>5, ReleaseOnlyInv DEF Crash
    <2>6. CASE ~Busy(w)
        <3>1. lock' = lock /\ job' = job
            BY <2>1, <2>6 DEF Crash
        <3>2. \A v \in Web : asked'[v] # 0 => batch[asked'[v]].status \notin {"absent", "pending"}
            BY <2>3 DEF IInv, AskedWasHeld
        <3> QED
            BY <2>3, <2>4, <3>1, <3>2, SameJobInv DEF IInv, TypeOK
    <2> QED
        BY <2>5, <2>6
<1>3. CASE \E b \in Batches : Ages(b)
    BY <1>3, AgesInv
<1>4. CASE \E s \in Skus : AmazonSettles(s) \/ SellerDeletes(s) \/ \E q \in Qty : SellerEdits(s, q)
    <2>1. /\ amazon' \in [Skus -> Qty \cup {NoQty}] /\ queued' \in [Skus -> Qty \cup {NoQty}]
          /\ UNCHANGED <<batch, item, listing, reached, lock, job, mode, paused, asked>>
        BY <1>4 DEF AmazonSettles, SellerDeletes, SellerEdits, IInv, TypeOK, rows, settings
    <2> QED
        BY <2>1, SameJobInv DEF IInv, TypeOK, AskedWasHeld
<1> QED
    BY <1>1, <1>2, <1>3, <1>4 DEF Environment

-----------------------------------------------------------------------------
(* The theorems.                                                           *)

LEMMA InitInv == Init => IInv
<1> SUFFICES ASSUME Init PROVE IInv
    OBVIOUS
<1>1. /\ \A b \in Batches : batch[b] = NoBatch
      /\ \A b \in Batches, s \in Skus : item[b][s] = NoItem
      /\ job = IdleJob /\ reached = {} /\ lock = NoOne /\ \A w \in Web : asked[w] = 0
    BY DEF Init
<1>2. NoItem \in ItemRows /\ NoItem.result = "absent"
    BY DEF NoItem, ItemRows, ItemResults
<1>3. TypeOK
    <2>1. batch \in [Batches -> BatchRows]
        BY NoBatchFields DEF Init
    <2>2. item \in [Batches -> [Skus -> ItemRows]]
        BY <1>2 DEF Init
    <2>3. listing \in [Skus -> ListingRows]
        BY DEF Init, ListingRows
    <2>4. mode \in SyncModes /\ asked \in [Web -> 0..MaxBatch]
        BY OperatorAssumption, BatchAssumption DEF Init
    <2> QED
        BY <2>1, <2>2, <2>3, <2>4, IdleJobFields DEF Init, TypeOK
<1>4. SessionEndsWithLock /\ JobFitsBatch /\ AskedWasHeld /\ NoWreckagePastRecovery
    BY <1>1, IdleJobFields DEF SessionEndsWithLock, JobFitsBatch, AskedWasHeld, NoWreckagePastRecovery
<1>5. ItemsAreComplete /\ ReachedIsListed /\ UntouchedIsClean
    BY <1>1, <1>2 DEF ItemsAreComplete, Complete, ReachedIsListed, UntouchedIsClean
<1>6. PracticeStaysPending /\ VerifiedBatchIsClosed
    BY <1>1, NoBatchFields DEF PracticeStaysPending, VerifiedBatchIsClosed
<1> QED
    BY <1>3, <1>4, <1>5, <1>6 DEF IInv

LEMMA NextInv == IInv /\ [Next]_vars => IInv'
<1> SUFFICES ASSUME IInv, [Next]_vars PROVE IInv'
    OBVIOUS
<1>1. CASE RunStart(Scheduler)
    BY <1>1, RunStartInv DEF Actors
<1>2. CASE RunStep
    BY <1>2, RunOpenInv, RunRecoveredInv, RunEndsEarlyInv, RunHoldInv, RunSendInv, RunAccountInv,
       RunVerifyInv, RunRecoverInv, RunConfirmInv, RunRecordInv DEF RunStep
<1>3. CASE SendStep
    BY <1>3, SendFeedInv, FeedRaisesInv, PatchItemInv, PatchRaisesInv DEF SendStep
<1>4. CASE HandlerCommit
    BY <1>4, HandlerCommitInv
<1>5. CASE RefreshStart \/ RefreshStore
    BY <1>5, RefreshStartInv, RefreshStoreInv
<1>6. ASSUME NEW w \in Web, WebStep(w) PROVE IInv'
    <2>1. CASE RunStart(w)
        BY <2>1, RunStartInv DEF Actors
    <2>2. CASE ApproveSend(w) \/ ApproveGivesUp(w)
        BY <2>2, ApproveSendInv, ApproveGivesUpInv
    <2>3. CASE TogglePause(w) \/ \E m \in Modes : SetMode(w, m)
        BY <2>3, SettingsInv
    <2>4. CASE \E b \in Batches : ApproveCheck(w, b) \/ Reject(w, b)
        BY <2>4, ApproveCheckInv, RejectInv
    <2>5. CASE \E b \in Batches, ids \in SUBSET Batches : UndoSend(w, b, ids)
        BY <2>5, UndoSendInv
    <2> QED
        BY <1>6, <2>1, <2>2, <2>3, <2>4, <2>5 DEF WebStep
<1>7. CASE Environment
    BY <1>7, EnvironmentInv
<1>8. CASE UNCHANGED vars
    BY <1>8, SameJobInv DEF vars, IInv, TypeOK, AskedWasHeld
<1> QED
    BY <1>1, <1>2, <1>3, <1>4, <1>5, <1>6, <1>7, <1>8 DEF Next

\* The inductive invariant holds in every reachable state, for any number of
\* SKUs, batches and web processes.
THEOREM Invariance == Spec => []IInv
BY InitInv, NextInv, PTL DEF Spec

\* Every variable keeps its type: each job, row and session is always one the
\* code has a name for.
THEOREM TypeCorrect == Spec => []TypeOK
<1>1. IInv => TypeOK
    BY DEF IInv
<1> QED
    BY <1>1, Invariance, PTL

\* What has reached Amazon is on record, with the quantity it replaced, in a
\* batch that says it may have been sent: the durability barrier works, wherever
\* a crash or an exception falls.  (db.checkpoint, send_batch)
THEOREM EverySendIsOnRecord == Spec => []SentIsOnRecord
<1>1. IInv => SentIsOnRecord
    <2> SUFFICES ASSUME IInv, NEW p \in reached
                 PROVE  /\ item[p[1]][p[2]].prev \in Qty
                        /\ batch[p[1]].status \notin {"absent", "pending", "awaiting_approval"}
        BY DEF SentIsOnRecord
    <2>1. p[1] \in Batches /\ p[2] \in Skus /\ p = <<p[1], p[2]>>
        BY DEF IInv, TypeOK
    <2>2. item[p[1]][p[2]].prev \in Qty
        BY <2>1 DEF IInv, ReachedIsListed, ItemsAreComplete, Complete
    <2>3. ~Untouched(p[1])
        BY <2>1 DEF IInv, UntouchedIsClean
    <2> QED
        BY <2>2, <2>3 DEF Untouched
<1> QED
    BY <1>1, Invariance, PTL

\* No batch is VERIFIED with an answer of Amazon still open, whatever sampling,
\* interruptions and later passes did to it.  (verify_batch)
THEOREM VerifiedIsClosed == Spec => []VerifiedBatchIsClosed
<1>1. IInv => VerifiedBatchIsClosed
    BY DEF IInv
<1> QED
    BY <1>1, Invariance, PTL

\* No run records or sends a batch while another one is left SENDING.
\* (_recover_interrupted_batches)
THEOREM RecoveryComesFirst == Spec => []NoSendOverWreckage
<1>1. IInv => NoSendOverWreckage
    BY DEF IInv, NoWreckagePastRecovery, NoSendOverWreckage, At
<1> QED
    BY <1>1, Invariance, PTL

\* Undoing a batch puts back every confirmed change of it, and every accepted
\* one nobody has looked at, whatever the catalogue cache says.  (plan_rollback)
THEOREM EverySentChangeIsUndoable == Spec => []SentIsUndoable
<1>1. IInv => SentIsUndoable
    <2> SUFFICES ASSUME IInv, NEW b \in Batches, NEW s \in Skus,
                        batch[b].status \in UndoableStatuses,
                        \/ item[b][s].result = "verified"
                        \/ item[b][s].result = "accepted" /\ item[b][s].read = NoQty,
                        item[b][s].prev # item[b][s].new, listing[s].present
                 PROVE  s \in PlanSkus(batch, item, listing, {b})
        BY DEF SentIsUndoable
    <2>1. Complete(item[b][s]) /\ item[b][s].result # "absent" /\ b # 0
        BY DEF IInv, ItemsAreComplete, Batches
    <2>2. NewestListing(batch, item, {b}, s) = b
        <3>1. s \in Listed(item[b]) /\ batch[b].status # "rolled_back"
            BY <2>1 DEF Listed, UndoableStatuses
        <3> QED
            BY <3>1, NewestListingOfOne
    <2>3. Believed(item[b][s], listing[s].quantity) = item[b][s].new
        BY <2>1 DEF Believed, Complete
    <2>4. Reversible(item[b][s], listing[s])
        BY <2>1, <2>3, NoQtyAssumption DEF Reversible, Complete
    <2> QED
        BY <2>1, <2>2, <2>4 DEF PlanSkus
<1> QED
    BY <1>1, Invariance, PTL

-----------------------------------------------------------------------------
(* What a step may do to the result of an item.                            *)

\* If an item is newly verified or newly not applied, then Amazon showed it.
ReadBack(b, s) ==
    item'[b][s].result = item[b][s].result
    \/ /\ item'[b][s].result = "verified" => item[b][s].new \in {amazon[s], job.report[s]}
       /\ item'[b][s].result = "not_applied" => batch[b].aged \/ amazon[s] = NoQty

LEMMA SameItemsReadBack ==
    ASSUME item' = item, NEW b \in Batches, NEW s \in Skus
    PROVE  ReadBack(b, s)
BY DEF ReadBack

\* A verification pass decides nothing on a batch of a practice run, and reads
\* Amazon for any other.
LEMMA VerifyBatchReadBack ==
    ASSUME TypeOK, NEW b \in Batches, NEW before \in [Skus -> ItemRows],
           NEW base \in [Batches -> BatchRows], VerifyBatch(b, before, base),
           batch[b].mode # "dry_run" \/ Open(before) = {},
           \A s \in Skus : /\ before[s].new = item[b][s].new
                           /\ \/ before[s].result = item[b][s].result
                              \/ before[s].result \notin {"verified", "not_applied"},
           NEW c \in Batches, NEW s \in Skus
    PROVE  ReadBack(c, s)
<1>1. /\ \A d \in Batches \ {b} : item'[d] = item[d]
      /\ \/ item'[b][s] = before[s]
         \/ /\ CanRead(b)
            /\ before[s].result = "accepted"
            /\ item'[b][s] = Judge(before[s], IF job.dry THEN before[s].new ELSE amazon[s],
                                   batch[b].aged)
    BY VerifyBatchEffect
<1>2. CASE c # b
    BY <1>1, <1>2 DEF ReadBack
<1>3. CASE c = b /\ item'[b][s] = before[s]
    BY <1>3 DEF ReadBack
<1>4. CASE c = b /\ item'[b][s] # before[s]
    <2>1. ~job.dry
        <3>1. batch[b].mode # "dry_run"
            BY <1>1, <1>4 DEF Open
        <3> QED
            BY <1>1, <1>4, <3>1 DEF CanRead
    <2>2. item'[b][s] = Judge(before[s], amazon[s], batch[b].aged)
        BY <1>1, <1>4, <2>1
    <2>3. /\ before[s] \in ItemRows /\ before[s].result = "accepted"
          /\ amazon[s] \in Qty \cup {NoQty} /\ batch[b].aged \in BOOLEAN
        BY <1>1, <1>4 DEF TypeOK, BatchRows
    <2>4. Judge(before[s], amazon[s], batch[b].aged).result = "verified" => amazon[s] = before[s].new
        BY <2>3, JudgeEffect
    <2>5. Judge(before[s], amazon[s], batch[b].aged).result = "not_applied" =>
             amazon[s] = NoQty \/ batch[b].aged
        BY <2>3, JudgeEffect
    <2> QED
        BY <1>4, <2>2, <2>4, <2>5 DEF ReadBack
<1> QED
    BY <1>2, <1>3, <1>4

\* A batch with an open item is not a practice run's.
LEMMA OpenIsReal ==
    ASSUME IInv, NEW b \in Batches
    PROVE  batch[b].mode # "dry_run" \/ Open(item[b]) = {}
<1>1. CASE Untouched(b)
    BY <1>1 DEF IInv, UntouchedIsClean, Open
<1>2. CASE ~Untouched(b)
    BY <1>2 DEF IInv, PracticeStaysPending, Untouched
<1> QED
    BY <1>1, <1>2

LEMMA NextReadBack ==
    ASSUME IInv, Next, NEW b \in Batches, NEW s \in Skus
    PROVE  ReadBack(b, s)
<1>0. TypeOK /\ batch \in [Batches -> BatchRows] /\ item \in [Batches -> [Skus -> ItemRows]]
    BY DEF IInv, TypeOK
<1>1. ASSUME NEW c \in Batches, RunRecover(c) PROVE ReadBack(b, s)
    <2> DEFINE never == {t \in Skus : item[c][t].result = "pending"}
               rest == [t \in Skus |-> IF t \in never THEN [item[c][t] EXCEPT !.result = "skipped"]
                                       ELSE item[c][t]]
               base == [batch EXCEPT ![c].status = IF never # {} THEN "partially_failed" ELSE "sent"]
    <2>1. VerifyBatch(c, rest, base) /\ batch[c].status = "sending"
        BY <1>1 DEF RunRecover, Stranded
    <2>2. ASSUME NEW t \in Skus
          PROVE  /\ rest[t] \in ItemRows /\ rest[t].new = item[c][t].new
                 /\ rest[t].result = item[c][t].result \/ rest[t].result = "skipped"
        <3>1. item[c][t] \in ItemRows
            BY <1>0
        <3>2. CASE t \in never
            <4>1. rest[t] = [item[c][t] EXCEPT !.result = "skipped"]
                BY <3>2
            <4> QED
                BY <3>1, <4>1 DEF ItemRows, ItemResults
        <3>3. CASE t \notin never
            BY <3>1, <3>3
        <3> QED
            BY <3>2, <3>3
    <2>3. rest \in [Skus -> ItemRows]
        BY <2>2
    <2>4. base \in [Batches -> BatchRows]
        BY <1>0 DEF BatchRows, BatchStatuses
    <2>5. batch[c].mode # "dry_run"
        BY <2>1 DEF IInv, PracticeStaysPending
    <2> HIDE DEF rest, base
    <2>6. \A t \in Skus : /\ rest[t].new = item[c][t].new
                          /\ \/ rest[t].result = item[c][t].result
                             \/ rest[t].result \notin {"verified", "not_applied"}
        BY <2>2
    <2> QED
        BY <1>0, <2>1, <2>3, <2>4, <2>5, <2>6, VerifyBatchReadBack
<1>2. ASSUME NEW c \in Batches, VerifyBatch(c, item[c], batch) PROVE ReadBack(b, s)
    BY <1>0, <1>2, OpenIsReal, VerifyBatchReadBack
<1>3. ASSUME SendOver, VerifyBatch(job.cur, SessionItems, BatchesAfterSend) PROVE ReadBack(b, s)
    <2>1. /\ job.cur \in Batches /\ ~Untouched(job.cur)
          /\ SessionItems \in [Skus -> ItemRows] /\ BatchesAfterSend \in [Batches -> BatchRows]
          /\ \A t \in Skus : /\ SessionItems[t].new = item[job.cur][t].new
                             /\ SessionItems[t].result \in {item[job.cur][t].result, "accepted", "rejected"}
        BY <1>3, AfterSend
    <2>2. batch[job.cur].mode # "dry_run"
        BY <2>1 DEF IInv, PracticeStaysPending, Untouched
    <2>3. \A t \in Skus : /\ SessionItems[t].new = item[job.cur][t].new
                          /\ \/ SessionItems[t].result = item[job.cur][t].result
                             \/ SessionItems[t].result \notin {"verified", "not_applied"}
        BY <2>1
    <2> QED
        BY <1>0, <1>3, <2>1, <2>2, <2>3, VerifyBatchReadBack
<1>4. ASSUME SendOver, item' = [item EXCEPT ![job.cur] = SessionItems] PROVE ReadBack(b, s)
    <2>1. /\ job.cur \in Batches
          /\ SessionItems[s].result \in {item[job.cur][s].result, "accepted", "rejected"}
        BY <1>4, AfterSend
    <2>2. CASE b = job.cur
        <3>1. item'[b] = SessionItems
            BY <1>0, <1>4, <2>1, <2>2
        <3> QED
            BY <2>1, <2>2, <3>1 DEF ReadBack
    <2>3. CASE b # job.cur
        BY <1>0, <1>4, <2>3 DEF ReadBack
    <2> QED
        BY <2>2, <2>3
<1>5. ASSUME NEW c \in Batches, RunRecord(c) PROVE ReadBack(b, s)
    <2>1. PICK chosen \in (SUBSET {t \in Skus : listing[t].present}) \ {{}} :
             \E want \in [chosen -> Qty] :
                item' = [item EXCEPT ![c] = [t \in Skus |->
                   IF t \in chosen THEN NewItem(listing[t].quantity, want[t]) ELSE NoItem]]
        BY <1>5 DEF RunRecord
    <2>2. PICK want \in [chosen -> Qty] :
             item' = [item EXCEPT ![c] = [t \in Skus |->
                IF t \in chosen THEN NewItem(listing[t].quantity, want[t]) ELSE NoItem]]
        BY <2>1
    <2>3. CASE b = c
        <3>1. item'[b][s] = IF s \in chosen THEN NewItem(listing[s].quantity, want[s]) ELSE NoItem
            BY <1>0, <2>2, <2>3
        <3>2. item'[b][s].result \in {"absent", "pending"}
            BY <3>1 DEF NewItem, NoItem
        <3> QED
            BY <3>2 DEF ReadBack
    <2>4. CASE b # c
        BY <1>0, <2>2, <2>4 DEF ReadBack
    <2> QED
        BY <2>3, <2>4
<1>6. ASSUME NEW w \in Web, NEW c \in Batches, NEW ids \in SUBSET Batches, UndoSend(w, c, ids)
      PROVE  ReadBack(b, s)
    <2> DEFINE plan == PlanItems(batch, item, listing, ids)
    <2>1. \A d \in Batches, t \in Skus : item[d][t].result # "absent" => item[d][t].new \in Qty
        BY DEF IInv, ItemsAreComplete, Complete
    <2>2. plan[s].result \in {"absent", "pending"}
        BY <1>0, <2>1, PlanItemsAreComplete DEF TypeOK
    <2>3. item' = [item EXCEPT ![c] = plan]
        BY <1>6 DEF UndoSend
    <2> HIDE DEF plan
    <2>4. CASE b = c
        BY <1>0, <2>2, <2>3, <2>4 DEF ReadBack
    <2>5. CASE b # c
        BY <1>0, <2>3, <2>5 DEF ReadBack
    <2> QED
        BY <2>4, <2>5
<1>7. CASE RefreshStore
    <2>1. item'[b][s] = Settled(b)[s]
        BY <1>7 DEF RefreshStore
    <2>2. CASE item'[b][s] = item[b][s]
        BY <2>2 DEF ReadBack
    <2>3. CASE item'[b][s] # item[b][s]
        <3>1. /\ item[b][s].result = "accepted" /\ job.report[s] \in Qty
              /\ item'[b][s] = Judge(item[b][s], job.report[s], batch[b].aged)
            BY <1>0, <2>1, <2>3, SettledEffect
        <3>2. item[b][s] \in ItemRows /\ batch[b].aged \in BOOLEAN
            BY <1>0 DEF BatchRows
        <3>3. /\ Judge(item[b][s], job.report[s], batch[b].aged).result = "verified" =>
                    job.report[s] = item[b][s].new
              /\ Judge(item[b][s], job.report[s], batch[b].aged).result = "not_applied" =>
                    job.report[s] = NoQty \/ batch[b].aged
            BY <3>1, <3>2, JudgeEffect
        <3> QED
            BY <3>1, <3>3, NoQtyAssumption DEF ReadBack
    <2> QED
        BY <2>2, <2>3
<1>8. CASE item' = item
    BY <1>8, SameItemsReadBack
<1>9. CASE RunStep
    <2>1. CASE RunAccount
        BY <1>4, <2>1 DEF RunAccount
    <2>2. CASE RunVerify
        <3>1. job.cur \in Batches /\ VerifyBatch(job.cur, item[job.cur], batch)
            BY <2>2 DEF RunVerify, At, IInv, JobFitsBatch
        <3> QED
            BY <1>2, <3>1
    <2>3. CASE \E c \in Batches : RunRecover(c) \/ RunConfirm(c) \/ RunRecord(c)
        BY <1>1, <1>2, <1>5, <2>3 DEF RunConfirm
    <2>4. CASE RunOpen \/ RunRecovered \/ RunEndsEarly \/ RunHold \/ RunSend
        BY <1>8, <2>4 DEF RunOpen, RunRecovered, RunEndsEarly, RunHold, RunSend, rows
    <2> QED
        BY <1>9, <2>1, <2>2, <2>3, <2>4 DEF RunStep
<1>10. CASE HandlerCommit
    BY <1>3, <1>4, <1>10 DEF HandlerCommit
<1>11. ASSUME NEW w \in Web, WebStep(w) PROVE ReadBack(b, s)
    <2>1. CASE \E c \in Batches, ids \in SUBSET Batches : UndoSend(w, c, ids)
        BY <1>6, <2>1
    <2>2. CASE ~\E c \in Batches, ids \in SUBSET Batches : UndoSend(w, c, ids)
        <3>1. item' = item
            BY <1>11, <2>2 DEF WebStep, RunStart, ApproveSend, ApproveGivesUp, TogglePause, ApproveCheck,
                               Reject, SetMode, rows
        <3> QED
            BY <1>8, <3>1
    <2> QED
        BY <2>1, <2>2
<1>12. CASE RunStart(Scheduler) \/ SendStep \/ RefreshStart
    BY <1>8, <1>12 DEF RunStart, SendStep, SendFeed, FeedRaises, PatchItem, PatchRaises, RefreshStart, rows
<1>13. CASE Environment
    BY <1>8, <1>13 DEF Environment, Abort, Crash, Ages, AmazonSettles, SellerDeletes, SellerEdits, rows
<1> QED
    BY <1>7, <1>9, <1>10, <1>11, <1>12, <1>13 DEF Next

\* An item is never verified without a live read-back, or a report row, that
\* showed what was sent.  (verify_batch, confirm_from_catalogue)
THEOREM ConfirmationIsEvidence == Spec => ConfirmedWasShown
<1>1. IInv /\ [Next]_vars =>
        [\A b \in Batches, s \in Skus :
            item'[b][s].result = "verified" /\ item[b][s].result # "verified"
            => item[b][s].new \in {amazon[s], job.report[s]}]_vars
    BY NextReadBack DEF ReadBack
<1> QED
    BY <1>1, Invariance, PTL DEF Spec, ConfirmedWasShown

\* An item is never called not applied before its deadline, unless the SKU is
\* gone.  (VERIFY_CONFIRM_DEADLINE)
THEOREM FailureIsNotHasty == Spec => NoHastyFailure
<1>1. IInv /\ [Next]_vars =>
        [\A b \in Batches, s \in Skus :
            item'[b][s].result = "not_applied" /\ item[b][s].result # "not_applied"
            => batch[b].aged \/ amazon[s] = NoQty]_vars
    BY NextReadBack DEF ReadBack
<1> QED
    BY <1>1, Invariance, PTL DEF Spec, NoHastyFailure
=============================================================================
