----------------------- MODULE PushRefinement_proofs -----------------------
(***************************************************************************)
(* PushLifecycle implements ChangeLedger, for any SKUs, quantities, number *)
(* of batches and limits, where one web process serves the pages: the      *)
(* initial states map to initial states, and every step to a step of the   *)
(* ledger or to none.                                                      *)
(***************************************************************************)
EXTENDS PushRefinement, PushLifecycle_proofs

-----------------------------------------------------------------------------
(* The inductive invariant, on top of IInv.                                *)

\* One web process asks for a batch, and lets nobody decline it before it has the lock.
AskedIsHeld == \A w \in Web : asked[w] # 0 => batch[asked[w]].status = "awaiting_approval"

\* A send has no answer on record before it is over.
SendsUnanswered ==
    job.phase \in {"sending", "stopped"} =>
        \A s \in Skus : item[job.cur][s].result \in {"absent", "pending"}

\* No item is older than its batch.
AbsentIsEmpty ==
    \A b \in Batches : batch[b].status = "absent" => \A s \in Skus : item[b][s].result = "absent"

LInv == AskedIsHeld /\ SendsUnanswered /\ AbsentIsEmpty

-----------------------------------------------------------------------------
(* Steps of the rows, as steps of the ledger.                              *)

LedgerStep == [Ledger!Next]_(Ledger!vars)

\* What a step may make of the row of an item: it gets an answer, or its answer is closed,
\* once somebody has begun to send its batch.
Answers(row, after, untouched) ==
    /\ after.prev = row.prev /\ after.new = row.new
    /\ \/ after.result = row.result
       \/ /\ ~untouched
          /\ \/ row.result = "pending"
                /\ after.result \in {"accepted", "rejected", "skipped", "verified", "not_applied"}
             \/ row.result = "accepted" /\ after.result \in {"verified", "not_applied"}

LEMMA AnswersSettle ==
    ASSUME reached' = reached,
           \A b \in Batches : Untouched(b)' = Untouched(b),
           \A b \in Batches, s \in Skus : Answers(item[b][s], item'[b][s], Untouched(b))
    PROVE  LedgerStep
<1> DEFINE open == {c \in Changes : StageOf(c) = "released" /\ StageOf(c)' = "open"}
           closed == {c \in Changes : StageOf(c) \in {"released", "open"} /\ StageOf(c)' = "closed"}
<1>1. ASSUME NEW c \in Changes
      PROVE  /\ TermsOf(c)' = TermsOf(c)
             /\ StageOf(c)' = IF c \in closed THEN "closed"
                              ELSE IF c \in open THEN "open" ELSE StageOf(c)
  <2>1. PICK b \in Batches, s \in Skus : c = <<b, s>> BY DEF Changes
  <2>2. c[1] = b /\ c[2] = s BY <2>1
  <2>3. Answers(item[b][s], item'[b][s], Untouched(b)) /\ Untouched(b)' = Untouched(b) OBVIOUS
  <2>4. StageOf(c) = IF item[b][s].result = "absent" THEN "none"
                     ELSE IF Untouched(b) THEN "proposed"
                     ELSE IF item[b][s].result = "pending" THEN "released"
                     ELSE IF item[b][s].result = "accepted" THEN "open" ELSE "closed"
    BY <2>2 DEF StageOf
  <2>5. StageOf(c)' = IF item'[b][s].result = "absent" THEN "none"
                      ELSE IF Untouched(b) THEN "proposed"
                      ELSE IF item'[b][s].result = "pending" THEN "released"
                      ELSE IF item'[b][s].result = "accepted" THEN "open" ELSE "closed"
    BY <2>2, <2>3 DEF StageOf
  <2>6. TermsOf(c)' = TermsOf(c) BY <2>2, <2>3 DEF TermsOf, Answers
  <2>7. \/ StageOf(c)' = StageOf(c)
        \/ StageOf(c) = "released" /\ StageOf(c)' = "open"
        \/ StageOf(c) \in {"released", "open"} /\ StageOf(c)' = "closed"
    BY <2>3, <2>4, <2>5 DEF Answers
  <2> QED BY <2>6, <2>7
<1>2. open \in SUBSET Changes /\ closed \in SUBSET Changes OBVIOUS
<1>3. Ledger!Settle(open, closed)
  <2>1. /\ \A c \in open : StageOf(c) = "released" /\ c \in Changes
        /\ \A c \in closed : StageOf(c) \in {"released", "open"} /\ c \in Changes
    OBVIOUS
  <2> HIDE DEF open, closed
  <2> QED BY <1>1, <1>2, <2>1 DEF Ledger!Settle
<1> QED BY <1>2, <1>3 DEF Ledger!Next, LedgerStep

\* Nothing of that changes: no step of the ledger, or one that settles nothing.
LEMMA SameItemsSettle ==
    ASSUME UNCHANGED <<item, reached>>, \A b \in Batches : Untouched(b)' = Untouched(b)
    PROVE  LedgerStep
<1>1. \A b \in Batches, s \in Skus : Answers(item[b][s], item'[b][s], Untouched(b))
  BY DEF Answers
<1> QED BY <1>1, AnswersSettle

LEMMA SameRowsSettle == UNCHANGED <<batch, item, reached>> => LedgerStep
BY SameItemsSettle DEF Untouched

\* A send begins, or somebody declines: the items of one batch are released.
LEMMA BatchReleased ==
    ASSUME TypeOK, UntouchedIsClean, NEW b \in Batches, UNCHANGED <<item, reached>>,
           Untouched(b), ~Untouched(b)', \A d \in Batches \ {b} : Untouched(d)' = Untouched(d)
    PROVE  LedgerStep
<1> DEFINE some == {c \in Changes : c[1] = b /\ item[b][c[2]].result # "absent"}
<1>1. ASSUME NEW c \in Changes
      PROVE  /\ TermsOf(c)' = TermsOf(c)
             /\ StageOf(c)' = IF c \in some THEN "released" ELSE StageOf(c)
             /\ c \in some => StageOf(c) = "proposed"
  <2>1. PICK d \in Batches, s \in Skus : c = <<d, s>> BY DEF Changes
  <2>2. c[1] = d /\ c[2] = s BY <2>1
  <2>3. TermsOf(c)' = TermsOf(c) BY DEF TermsOf
  <2>4. CASE d = b
    <3>1. item[b][s].result \in {"absent", "pending"} BY DEF UntouchedIsClean
    <3> QED BY <2>2, <2>3, <2>4, <3>1 DEF StageOf
  <2>5. CASE d # b
    <3>1. Untouched(d)' = Untouched(d) BY <2>5
    <3> QED BY <2>2, <2>3, <2>5, <3>1 DEF StageOf
  <2> QED BY <2>4, <2>5
<1>2. some \in SUBSET Changes OBVIOUS
<1>3. CASE some = {}
  <2>1. UNCHANGED Ledger!vars
    <3>1. \A c \in Changes : StageOf(c)' = StageOf(c) /\ TermsOf(c)' = TermsOf(c) BY <1>1, <1>3
    <3> QED BY <3>1 DEF Ledger!vars
  <2> QED BY <2>1 DEF LedgerStep
<1>4. CASE some # {}
  <2> HIDE DEF some
  <2>1. Ledger!Release(some) BY <1>1, <1>2, <1>4 DEF Ledger!Release
  <2> QED BY <1>2, <2>1 DEF Ledger!Next, LedgerStep
<1> QED BY <1>3, <1>4

\* A batch is written down, with its items.
LEMMA BatchRecorded ==
    ASSUME TypeOK, AbsentIsEmpty, NEW b \in Batches, batch[b].status = "absent",
           NEW plan \in [Skus -> ItemRows], item' = [item EXCEPT ![b] = plan],
           \A s \in Skus : /\ plan[s].result \in {"absent", "pending"}
                           /\ plan[s].result # "absent" => plan[s].prev \in Qty /\ plan[s].new \in Qty,
           \E s \in Skus : plan[s].result # "absent",
           reached' = reached,
           \A d \in Batches \ {b} : Untouched(d)' = Untouched(d)
    PROVE  LedgerStep
<1> DEFINE some == {c \in Changes : c[1] = b /\ plan[c[2]].result # "absent"}
           to == IF Untouched(b)' THEN "proposed" ELSE "released"
<1>0. item'[b] = plan /\ \A d \in Batches \ {b} : item'[d] = item[d] BY DEF TypeOK
<1>1. ASSUME NEW c \in Changes
      PROVE  /\ StageOf(c)' = IF c \in some THEN to ELSE StageOf(c)
             /\ c \in some => StageOf(c) = "none" /\ TermsOf(c)' \in Qty \X Qty
             /\ c \notin some => TermsOf(c)' = TermsOf(c)
  <2>1. PICK d \in Batches, s \in Skus : c = <<d, s>> BY DEF Changes
  <2>2. c[1] = d /\ c[2] = s BY <2>1
  <2>3. CASE d = b
    <3>1. item[b][s].result = "absent" BY DEF AbsentIsEmpty
    <3>2. StageOf(c) = "none" /\ TermsOf(c) = NoQty BY <2>2, <2>3, <3>1 DEF StageOf, TermsOf
    <3>3. CASE plan[s].result = "absent"
      <4>1. StageOf(c)' = "none" /\ TermsOf(c)' = NoQty /\ c \notin some
        BY <1>0, <2>2, <2>3, <3>3 DEF StageOf, TermsOf
      <4> QED BY <3>2, <4>1
    <3>4. CASE plan[s].result # "absent"
      <4>1. plan[s].result = "pending" /\ plan[s].prev \in Qty /\ plan[s].new \in Qty BY <3>4
      <4>2. c \in some BY <2>2, <2>3, <3>4
      <4>3. StageOf(c)' = to BY <1>0, <2>2, <2>3, <4>1 DEF StageOf
      <4>4. TermsOf(c)' = <<plan[s].prev, plan[s].new>> BY <1>0, <2>2, <2>3, <4>1 DEF TermsOf
      <4> QED BY <3>2, <4>1, <4>2, <4>3, <4>4
    <3> QED BY <3>3, <3>4
  <2>4. CASE d # b
    <3>1. Untouched(d)' = Untouched(d) /\ item'[d] = item[d] BY <1>0, <2>4
    <3>2. c \notin some BY <2>2, <2>4
    <3>3. StageOf(c)' = StageOf(c) /\ TermsOf(c)' = TermsOf(c)
      BY <2>2, <3>1 DEF StageOf, TermsOf
    <3> QED BY <3>2, <3>3
  <2> QED BY <2>3, <2>4
<1>2. some \in SUBSET Changes /\ some # {}
  <2>1. PICK s \in Skus : plan[s].result # "absent" OBVIOUS
  <2>2. <<b, s>> \in some BY <2>1 DEF Changes
  <2> QED BY <2>2
<1>3. to \in {"proposed", "released"} OBVIOUS
<1> HIDE DEF some, to
<1>4. Ledger!Record(some, to) BY <1>1, <1>2, <1>3 DEF Ledger!Record
<1>5. to \in Ledger!Stages BY <1>3 DEF Ledger!Stages
<1> QED BY <1>2, <1>4, <1>5 DEF Ledger!Next, LedgerStep

\* Changes of the batch that is being sent reach Amazon.
LEMMA UnansweredReach ==
    ASSUME IInv, SendsUnanswered, job.phase = "sending", UNCHANGED <<batch, item>>,
           NEW taken \in SUBSET Listed(item[job.cur]),
           reached' = reached \cup ({job.cur} \X taken)
    PROVE  LedgerStep
<1> DEFINE some == {job.cur} \X taken
<1>1. job.cur \in Batches /\ ~Untouched(job.cur) BY DEF IInv, JobFitsBatch
<1>2. taken \subseteq Skus BY DEF Listed
<1>3. some \in SUBSET Changes BY <1>1, <1>2 DEF Changes
<1>4. ASSUME NEW c \in some PROVE StageOf(c) = "released"
  <2>1. PICK s \in taken : c = <<job.cur, s>> OBVIOUS
  <2>2. c[1] = job.cur /\ c[2] = s BY <2>1
  <2>3. item[job.cur][s].result = "pending" BY <1>2 DEF SendsUnanswered, Listed
  <2> QED BY <1>1, <2>2, <2>3 DEF StageOf
<1>5. \A c \in Changes : StageOf(c)' = StageOf(c) /\ TermsOf(c)' = TermsOf(c)
  BY DEF StageOf, TermsOf, Untouched
<1>6. reached' = reached \cup some OBVIOUS
<1> HIDE DEF some
<1>7. Ledger!Reach(some) BY <1>3, <1>4, <1>5, <1>6 DEF Ledger!Reach
<1> QED BY <1>3, <1>7 DEF Ledger!Next, LedgerStep

-----------------------------------------------------------------------------
(* Steps that keep LInv.                                                   *)

\* The rows stay as they are; a job that sends was sending the same batch.
LEMMA LInvKept ==
    ASSUME IInv, LInv, UNCHANGED <<batch, item>>,
           \A w \in Web : asked'[w] \in {0, asked[w]},
           \/ job'.phase \notin {"sending", "stopped"}
           \/ job.phase \in {"sending", "stopped"} /\ job'.cur = job.cur
    PROVE  LInv'
<1>1. AskedIsHeld' BY DEF LInv, AskedIsHeld
<1>2. SendsUnanswered' BY DEF LInv, SendsUnanswered
<1>3. AbsentIsEmpty' BY DEF LInv, AbsentIsEmpty
<1> QED BY <1>1, <1>2, <1>3 DEF LInv

\* No batch that is held, or has no row, is touched.
LEMMA HeldAndAbsentKept ==
    ASSUME IInv, LInv, asked' = asked,
           \A b \in Batches : batch[b].status = "awaiting_approval" => batch'[b].status = "awaiting_approval",
           \A b \in Batches : batch'[b].status = "absent" => batch[b].status = "absent" /\ item'[b] = item[b]
    PROVE  AskedIsHeld' /\ AbsentIsEmpty'
<1>1. \A w \in Web : asked[w] # 0 => asked[w] \in Batches BY KnownBatches DEF IInv
<1>2. AskedIsHeld' BY <1>1 DEF LInv, AskedIsHeld
<1>3. AbsentIsEmpty' BY DEF LInv, AbsentIsEmpty
<1> QED BY <1>2, <1>3

-----------------------------------------------------------------------------
(* Reading back.                                                           *)

\* A verification pass closes open items of one batch, and may call that batch verified.
LEMMA VerifyBatchCloses ==
    ASSUME TypeOK, NEW b \in Batches, NEW before \in [Skus -> ItemRows],
           NEW base \in [Batches -> BatchRows], VerifyBatch(b, before, base)
    PROVE  /\ \A c \in Batches \ {b} : item'[c] = item[c] /\ batch'[c] = base[c]
           /\ batch'[b].status \in {base[b].status, "verified"}
           /\ \A s \in Skus :
                 /\ item'[b][s].prev = before[s].prev /\ item'[b][s].new = before[s].new
                 /\ \/ item'[b][s].result = before[s].result
                    \/ before[s].result = "accepted" /\ item'[b][s].result \in {"verified", "not_applied"}
<1>1. /\ item' \in [Batches -> [Skus -> ItemRows]]
      /\ batch' \in [Batches -> BatchRows]
      /\ listing' \in [Skus -> ListingRows]
      /\ \A c \in Batches \ {b} : item'[c] = item[c] /\ batch'[c] = base[c]
      /\ batch'[b].mode = base[b].mode
      /\ \/ batch'[b].status = base[b].status
         \/ batch'[b].status = "verified" /\ Open(item'[b]) = {} /\ Open(before) # {}
      /\ \A s \in Skus :
            \/ item'[b][s] = before[s]
            \/ /\ CanRead(b)
               /\ before[s].result = "accepted"
               /\ item'[b][s] = Judge(before[s], IF job.dry THEN before[s].new ELSE amazon[s],
                                      batch[b].aged)
  BY VerifyBatchEffect
<1>2. ASSUME NEW s \in Skus
      PROVE  /\ item'[b][s].prev = before[s].prev /\ item'[b][s].new = before[s].new
             /\ \/ item'[b][s].result = before[s].result
                \/ before[s].result = "accepted" /\ item'[b][s].result \in {"verified", "not_applied"}
  <2>1. CASE item'[b][s] = before[s] BY <2>1
  <2>2. CASE item'[b][s] # before[s]
    <3> DEFINE shown == IF job.dry THEN before[s].new ELSE amazon[s]
    <3>1. before[s].result = "accepted" /\ item'[b][s] = Judge(before[s], shown, batch[b].aged)
      BY <1>1, <2>2
    <3>2. shown \in Qty \cup {NoQty} /\ batch[b].aged \in BOOLEAN /\ before[s] \in ItemRows
      BY DEF TypeOK, BatchRows, ItemRows
    <3> HIDE DEF shown
    <3>3. /\ Judge(before[s], shown, batch[b].aged).prev = before[s].prev
          /\ Judge(before[s], shown, batch[b].aged).new = before[s].new
          /\ Judge(before[s], shown, batch[b].aged).result \in {"accepted", "verified", "not_applied"}
      BY <3>1, <3>2, JudgeEffect
    <3> QED BY <3>1, <3>3
  <2> QED BY <2>1, <2>2
<1> QED BY <1>1, <1>2

\* A verification pass answers what its session had answered, and settles what is open.
LEMMA VerifyBatchSettles ==
    ASSUME IInv, LInv, NEW b \in Batches, NEW before \in [Skus -> ItemRows],
           NEW base \in [Batches -> BatchRows], VerifyBatch(b, before, base),
           UNCHANGED <<reached, asked>>,
           ~Untouched(b), base[b].status \notin {"absent", "pending", "awaiting_approval"},
           \A c \in Batches \ {b} : \/ base[c].status = batch[c].status
                                    \/ ~Untouched(c) /\ base[c].status = "rolled_back",
           \A s \in Skus : Answers(item[b][s], before[s], FALSE),
           \A s \in Skus : before[s].result # item[b][s].result => item[b][s].result = "pending"
    PROVE  LedgerStep /\ AskedIsHeld' /\ AbsentIsEmpty'
<1>0. TypeOK BY DEF IInv
<1>1. /\ \A c \in Batches \ {b} : item'[c] = item[c] /\ batch'[c] = base[c]
      /\ batch'[b].status \in {base[b].status, "verified"}
      /\ \A s \in Skus :
            /\ item'[b][s].prev = before[s].prev /\ item'[b][s].new = before[s].new
            /\ \/ item'[b][s].result = before[s].result
               \/ before[s].result = "accepted" /\ item'[b][s].result \in {"verified", "not_applied"}
  BY <1>0, VerifyBatchCloses
<1>2. \A c \in Batches : Untouched(c)' = Untouched(c)
  <2>1. ASSUME NEW c \in Batches PROVE Untouched(c)' <=> Untouched(c)
    <3>1. CASE c = b BY <1>1, <3>1 DEF Untouched
    <3>2. CASE c # b BY <1>1, <3>2 DEF Untouched
    <3> QED BY <3>1, <3>2
  <2> QED BY <2>1 DEF Untouched
<1>3. \A s \in Skus : Answers(item[b][s], item'[b][s], Untouched(b)) BY <1>1 DEF Answers
<1>4. \A c \in Batches, s \in Skus : Answers(item[c][s], item'[c][s], Untouched(c))
  <2>1. ASSUME NEW c \in Batches, NEW s \in Skus
        PROVE  Answers(item[c][s], item'[c][s], Untouched(c))
    <3>1. CASE c = b BY <1>3, <3>1
    <3>2. CASE c # b BY <1>1, <3>2 DEF Answers
    <3> QED BY <3>1, <3>2
  <2> QED BY <2>1
<1>5. LedgerStep BY <1>2, <1>4, AnswersSettle
<1>6. \A c \in Batches :
         /\ batch[c].status = "awaiting_approval" => batch'[c].status = "awaiting_approval"
         /\ batch'[c].status = "absent" => batch[c].status = "absent" /\ item'[c] = item[c]
  <2>1. ASSUME NEW c \in Batches
        PROVE  /\ batch[c].status = "awaiting_approval" => batch'[c].status = "awaiting_approval"
               /\ batch'[c].status = "absent" => batch[c].status = "absent" /\ item'[c] = item[c]
    <3>1. CASE c = b BY <1>1, <3>1 DEF Untouched
    <3>2. CASE c # b BY <1>1, <3>2 DEF Untouched
    <3> QED BY <3>1, <3>2
  <2> QED BY <2>1
<1>7. AskedIsHeld' /\ AbsentIsEmpty' BY <1>6, HeldAndAbsentKept
<1> QED BY <1>5, <1>7

LEMMA RunRecoverSettles ==
    ASSUME IInv, LInv, NEW b \in Batches, RunRecover(b)
    PROVE  LedgerStep /\ LInv'
<1> DEFINE never == {s \in Skus : item[b][s].result = "pending"}
           rest == [s \in Skus |-> IF s \in never THEN [item[b][s] EXCEPT !.result = "skipped"]
                                   ELSE item[b][s]]
           base == [batch EXCEPT ![b].status = IF never # {} THEN "partially_failed" ELSE "sent"]
<1>0. /\ batch \in [Batches -> BatchRows] /\ item \in [Batches -> [Skus -> ItemRows]]
      /\ batch[b].status = "sending" /\ job.phase = "settling"
      /\ job' = job /\ asked' = asked /\ reached' = reached
  BY DEF IInv, TypeOK, RunRecover, At, Stranded, world, settings
<1>1. VerifyBatch(b, rest, base) BY DEF RunRecover
<1>2. ASSUME NEW s \in Skus
      PROVE  /\ rest[s] \in ItemRows /\ Answers(item[b][s], rest[s], FALSE)
             /\ rest[s].result # item[b][s].result => item[b][s].result = "pending"
  <2>1. item[b][s] \in ItemRows BY <1>0
  <2>2. CASE s \in never
    <3>1. rest[s] = [item[b][s] EXCEPT !.result = "skipped"] /\ item[b][s].result = "pending"
      BY <2>2
    <3> QED BY <2>1, <3>1 DEF Answers, ItemRows, ItemResults
  <2>3. CASE s \notin never
    <3>1. rest[s] = item[b][s] BY <2>3
    <3> QED BY <2>1, <3>1 DEF Answers
  <2> QED BY <2>2, <2>3
<1>3. /\ base \in [Batches -> BatchRows]
      /\ \A c \in Batches \ {b} : base[c] = batch[c]
      /\ base[b].status \in {"partially_failed", "sent"}
  BY <1>0 DEF BatchRows, BatchStatuses
<1>4. rest \in [Skus -> ItemRows] BY <1>2
<1> HIDE DEF rest, base
<1>5. ~Untouched(b) BY <1>0 DEF Untouched
<1>6. LedgerStep /\ AskedIsHeld' /\ AbsentIsEmpty'
  BY <1>0, <1>1, <1>2, <1>3, <1>4, <1>5, VerifyBatchSettles
<1>7. SendsUnanswered' BY <1>0 DEF SendsUnanswered
<1> QED BY <1>6, <1>7 DEF LInv

\* A pass over the committed rows of a batch.
LEMMA ReadBackSettles ==
    ASSUME IInv, LInv, NEW b \in Batches, ~Untouched(b), VerifyBatch(b, item[b], batch),
           UNCHANGED <<reached, asked>>, job'.phase \notin {"sending", "stopped"}
    PROVE  LedgerStep /\ LInv'
<1>1. item[b] \in [Skus -> ItemRows] /\ batch \in [Batches -> BatchRows] BY DEF IInv, TypeOK
<1>2. \A s \in Skus : Answers(item[b][s], item[b][s], FALSE) BY DEF Answers
<1>3. LedgerStep /\ AskedIsHeld' /\ AbsentIsEmpty'
  BY <1>1, <1>2, VerifyBatchSettles DEF Untouched
<1>4. SendsUnanswered' BY DEF SendsUnanswered
<1> QED BY <1>3, <1>4 DEF LInv

LEMMA RunConfirmSettles ==
    ASSUME IInv, LInv, NEW b \in Batches, RunConfirm(b)
    PROVE  LedgerStep /\ LInv'
<1>1. ~Untouched(b) BY DEF RunConfirm, IInv, JobFitsBatch
<1>2. job'.phase = "confirming"
  <2>1. job \in Jobs /\ job.phase = "confirming" /\ job' = [job EXCEPT !.targets = @ \ {b}]
    BY DEF IInv, TypeOK, RunConfirm, At
  <2> QED BY <2>1 DEF Jobs
<1> QED BY <1>1, <1>2, ReadBackSettles DEF RunConfirm, world

LEMMA RunVerifySettles ==
    ASSUME IInv, LInv, RunVerify
    PROVE  LedgerStep /\ LInv'
<1>1. job.cur \in Batches /\ ~Untouched(job.cur) BY DEF RunVerify, At, IInv, JobFitsBatch
<1>2. job'.phase = "idle" BY IdleJobFields DEF RunVerify, Release
<1> QED BY <1>1, <1>2, ReadBackSettles DEF RunVerify, world

-----------------------------------------------------------------------------
(* The end of a send.                                                      *)

\* What the session holds at the end of a send are answers to what had none.
LEMMA SessionAnswers ==
    ASSUME IInv, LInv, SendOver, NEW s \in Skus
    PROVE  /\ Answers(item[job.cur][s], SessionItems[s], FALSE)
           /\ SessionItems[s].result # item[job.cur][s].result => item[job.cur][s].result = "pending"
<1>1. /\ SessionItems[s].prev = item[job.cur][s].prev /\ SessionItems[s].new = item[job.cur][s].new
      /\ SessionItems[s].result \in {item[job.cur][s].result, "accepted", "rejected"}
  BY AfterSend
<1>2. item[job.cur][s].result \in {"absent", "pending"}
  BY DEF LInv, SendsUnanswered, SendOver
<1>3. item[job.cur][s].result = "absent" => SessionItems[s] = item[job.cur][s]
  BY DEF IInv, JobFitsBatch, SessionItems
<1> QED BY <1>1, <1>2, <1>3 DEF Answers

LEMMA CommitSettles ==
    ASSUME IInv, LInv, SendOver, UNCHANGED <<reached, asked>>,
           job'.phase \notin {"sending", "stopped"},
           \/ VerifyBatch(job.cur, SessionItems, BatchesAfterSend)
           \/ item' = [item EXCEPT ![job.cur] = SessionItems] /\ batch' = BatchesAfterSend
    PROVE  LedgerStep /\ LInv'
<1> DEFINE b == job.cur
<1>0. item \in [Batches -> [Skus -> ItemRows]] BY DEF IInv, TypeOK
<1>1. /\ b \in Batches /\ ~Untouched(b)
      /\ SessionItems \in [Skus -> ItemRows]
      /\ BatchesAfterSend \in [Batches -> BatchRows]
      /\ BatchesAfterSend[b].status \in {"sent", "failed", "partially_failed"}
      /\ \A c \in Batches :
            /\ c # b => BatchesAfterSend[c].status \in {batch[c].status, "rolled_back"}
            /\ BatchesAfterSend[c].status \in {"absent", "pending", "awaiting_approval"} <=> Untouched(c)
  BY AfterSend
<1>2. \A c \in Batches \ {b} : \/ BatchesAfterSend[c].status = batch[c].status
                               \/ ~Untouched(c) /\ BatchesAfterSend[c].status = "rolled_back"
  BY <1>1
<1>3. SendsUnanswered' BY DEF SendsUnanswered
<1>4. CASE VerifyBatch(b, SessionItems, BatchesAfterSend)
  <2>1. BatchesAfterSend[b].status \notin {"absent", "pending", "awaiting_approval"} BY <1>1
  <2>2. \A s \in Skus :
           /\ Answers(item[b][s], SessionItems[s], FALSE)
           /\ SessionItems[s].result # item[b][s].result => item[b][s].result = "pending"
    BY SessionAnswers
  <2> HIDE DEF b
  <2>3. LedgerStep /\ AskedIsHeld' /\ AbsentIsEmpty'
    BY <1>1, <1>2, <1>4, <2>1, <2>2, VerifyBatchSettles
  <2> QED BY <1>3, <2>3 DEF LInv
<1>5. CASE item' = [item EXCEPT ![b] = SessionItems] /\ batch' = BatchesAfterSend
  <2>1. item'[b] = SessionItems /\ \A c \in Batches \ {b} : item'[c] = item[c]
    BY <1>0, <1>1, <1>5
  <2>2. \A c \in Batches : Untouched(c)' = Untouched(c) BY <1>1, <1>5 DEF Untouched
  <2>3. ASSUME NEW c \in Batches, NEW s \in Skus
        PROVE  Answers(item[c][s], item'[c][s], Untouched(c))
    <3>1. CASE c = b
      <4>1. Answers(item[b][s], item'[b][s], FALSE) BY <2>1, SessionAnswers
      <4> QED BY <1>1, <3>1, <4>1 DEF Answers
    <3>2. CASE c # b BY <2>1, <3>2 DEF Answers
    <3> QED BY <3>1, <3>2
  <2>4. LedgerStep BY <2>2, <2>3, AnswersSettle
  <2>5. AskedIsHeld' /\ AbsentIsEmpty'
    <3>1. \A c \in Batches : batch[c].status = "awaiting_approval" => batch'[c].status = "awaiting_approval"
      BY <1>1, <1>2, <1>5 DEF Untouched
    <3>2. \A c \in Batches : batch'[c].status = "absent" => batch[c].status = "absent" /\ item'[c] = item[c]
      BY <1>1, <1>2, <1>5, <2>1
    <3> QED BY <3>1, <3>2, HeldAndAbsentKept
  <2> QED BY <1>3, <2>4, <2>5 DEF LInv
<1> QED BY <1>4, <1>5

LEMMA RunAccountSettles ==
    ASSUME IInv, LInv, RunAccount
    PROVE  LedgerStep /\ LInv'
<1>1. job'.phase \notin {"sending", "stopped"}
  <2>1. CASE job' = [job EXCEPT !.phase = "accounted"] BY <2>1 DEF IInv, TypeOK, Jobs
  <2>2. CASE Release BY <2>2, IdleJobFields DEF Release
  <2> QED BY <2>1, <2>2 DEF RunAccount
<1> QED BY <1>1, CommitSettles DEF RunAccount, world

LEMMA HandlerCommitSettles ==
    ASSUME IInv, LInv, HandlerCommit
    PROVE  LedgerStep /\ LInv'
<1>1. job'.phase = "idle" BY IdleJobFields DEF HandlerCommit, Release
<1>2. \/ VerifyBatch(job.cur, SessionItems, BatchesAfterSend)
      \/ item' = [item EXCEPT ![job.cur] = SessionItems] /\ batch' = BatchesAfterSend
  BY DEF HandlerCommit
<1> QED BY <1>1, <1>2, CommitSettles DEF HandlerCommit, world

-----------------------------------------------------------------------------
(* Writing a batch down, and beginning to send it.                         *)

LEMMA RunRecordRecords ==
    ASSUME IInv, LInv, NEW b \in Batches, RunRecord(b)
    PROVE  LedgerStep /\ LInv'
<1>0. /\ batch \in [Batches -> BatchRows] /\ listing \in [Skus -> ListingRows] /\ job \in Jobs
      /\ batch[b].status = "absent" /\ asked' = asked /\ reached' = reached
      /\ batch' = [batch EXCEPT ![b] = [NoBatch EXCEPT !.status = "pending", !.mode = job.mode]]
      /\ job' = [job EXCEPT !.phase = "recorded", !.cur = b]
  BY DEF IInv, TypeOK, RunRecord, IsNext, SetBatch, world
<1>1. batch'[b].status = "pending" /\ \A c \in Batches \ {b} : batch'[c] = batch[c]
  BY <1>0 DEF NoBatch
<1>2. PICK plan \in [Skus -> ItemRows] :
         /\ item' = [item EXCEPT ![b] = plan]
         /\ \A s \in Skus : /\ plan[s].result \in {"absent", "pending"}
                            /\ plan[s].result # "absent" => plan[s].prev \in Qty /\ plan[s].new \in Qty
         /\ \E s \in Skus : plan[s].result # "absent"
  <2>1. PICK chosen \in (SUBSET {s \in Skus : listing[s].present}) \ {{}} :
           \E want \in [chosen -> Qty] :
              item' = [item EXCEPT ![b] = [s \in Skus |->
                 IF s \in chosen THEN NewItem(listing[s].quantity, want[s]) ELSE NoItem]]
    BY DEF RunRecord
  <2>2. PICK want \in [chosen -> Qty] :
           item' = [item EXCEPT ![b] = [s \in Skus |->
              IF s \in chosen THEN NewItem(listing[s].quantity, want[s]) ELSE NoItem]]
    BY <2>1
  <2> DEFINE new == [s \in Skus |->
                       IF s \in chosen THEN NewItem(listing[s].quantity, want[s]) ELSE NoItem]
  <2>3. ASSUME NEW s \in Skus
        PROVE  /\ new[s] \in ItemRows
               /\ s \in chosen => new[s].result = "pending" /\ new[s].prev \in Qty /\ new[s].new \in Qty
               /\ s \notin chosen => new[s].result = "absent"
    <3>1. CASE s \in chosen
      <4>1. want[s] \in Qty /\ listing[s].quantity \in Qty BY <1>0, <3>1 DEF ListingRows
      <4>2. new[s] = NewItem(listing[s].quantity, want[s]) BY <3>1
      <4> QED BY <3>1, <4>1, <4>2 DEF NewItem, ItemRows, ItemResults
    <3>2. CASE s \notin chosen BY <3>2 DEF NoItem, ItemRows, ItemResults
    <3> QED BY <3>1, <3>2
  <2>4. new \in [Skus -> ItemRows] BY <2>3
  <2>5. PICK t \in Skus : t \in chosen BY <2>1
  <2>6. item' = [item EXCEPT ![b] = new] BY <2>2
  <2> HIDE DEF new
  <2> QED BY <2>3, <2>4, <2>5, <2>6
<1>3. \A d \in Batches \ {b} : Untouched(d)' = Untouched(d) BY <1>1 DEF Untouched
<1>4. LedgerStep BY <1>0, <1>2, <1>3, BatchRecorded DEF IInv, LInv
<1>5. \A d \in Batches \ {b} : item'[d] = item[d] BY <1>2 DEF IInv, TypeOK
<1>6. AskedIsHeld' /\ AbsentIsEmpty' BY <1>0, <1>1, <1>5, HeldAndAbsentKept
<1>7. job'.phase = "recorded" BY <1>0 DEF Jobs
<1> QED BY <1>4, <1>6, <1>7 DEF LInv, SendsUnanswered

LEMMA UndoSendRecords ==
    ASSUME IInv, LInv, NEW w \in Web, NEW b \in Batches, NEW ids \in SUBSET Batches,
           UndoSend(w, b, ids)
    PROVE  LedgerStep /\ LInv'
<1> DEFINE plan == PlanItems(batch, item, listing, ids)
           row == [NoBatch EXCEPT !.mode = "automatic", !.undoOf = MaxOf(ids)]
<1>0. /\ batch \in [Batches -> BatchRows] /\ item \in [Batches -> [Skus -> ItemRows]]
      /\ listing \in [Skus -> ListingRows]
      /\ batch[b].status = "absent" /\ asked' = asked /\ reached' = reached
      /\ batch' = [batch EXCEPT ![b] = Sending(row)] /\ item' = [item EXCEPT ![b] = plan]
      /\ job' = [IdleJob EXCEPT !.kind = "undo", !.phase = "sending", !.cur = b, !.targets = ids]
  BY DEF IInv, TypeOK, UndoSend, TakeLock, world, IsNext, SetBatch
<1>1. batch'[b].status = "sending" /\ \A c \in Batches \ {b} : batch'[c] = batch[c]
  BY <1>0 DEF NoBatch, Sending
<1>2. /\ plan \in [Skus -> ItemRows]
      /\ \A s \in Skus : /\ plan[s].result \in {"absent", "pending"}
                         /\ plan[s].result # "absent" => plan[s].prev \in Qty /\ plan[s].new \in Qty
  <2>1. \A c \in Batches, s \in Skus : item[c][s].result # "absent" => item[c][s].new \in Qty
    BY DEF IInv, ItemsAreComplete, Complete
  <2> QED BY <1>0, <2>1, PlanItemsAreComplete
<1>3. \E s \in Skus : plan[s].result # "absent"
  <2>1. PICK s \in PlanSkus(batch, item, listing, ids) : TRUE BY DEF UndoSend
  <2>2. s \in Skus /\ plan[s].result = "pending" BY <2>1 DEF PlanItems, PlanSkus, NewItem
  <2> QED BY <2>2
<1> HIDE DEF plan, row
<1>4. \A d \in Batches \ {b} : Untouched(d)' = Untouched(d) BY <1>1 DEF Untouched
<1>5. LedgerStep BY <1>0, <1>2, <1>3, <1>4, BatchRecorded DEF IInv, LInv
<1>6. item'[b] = plan /\ \A d \in Batches \ {b} : item'[d] = item[d] BY <1>0
<1>7. AskedIsHeld' /\ AbsentIsEmpty' BY <1>0, <1>1, <1>6, HeldAndAbsentKept
<1>8. SendsUnanswered'
  <2>1. job'.cur = b BY <1>0 DEF IdleJob
  <2> QED BY <1>2, <1>6, <2>1 DEF SendsUnanswered
<1> QED BY <1>5, <1>7, <1>8 DEF LInv

LEMMA RunHoldRecords ==
    ASSUME IInv, LInv, RunHold
    PROVE  LedgerStep /\ LInv'
<1> DEFINE to == IF job.mode = "dry_run" THEN "pending" ELSE "awaiting_approval"
<1>1. PICK b \in Batches : b = job.cur BY DEF IInv, RunHold, At, JobFitsBatch
<1>2. /\ batch \in [Batches -> BatchRows] /\ batch[b].status = "pending"
      /\ batch' = [batch EXCEPT ![b] = [batch[b] EXCEPT !.status = to]]
      /\ item' = item /\ asked' = asked /\ reached' = reached
  BY <1>1 DEF IInv, TypeOK, RunHold, At, JobFitsBatch, SetBatch, world
<1>3. /\ batch'[b].status \in {"pending", "awaiting_approval"}
      /\ \A c \in Batches \ {b} : batch'[c] = batch[c]
  BY <1>2 DEF BatchRows
<1>4. \A c \in Batches : Untouched(c)' = Untouched(c) BY <1>2, <1>3 DEF Untouched
<1>5. LedgerStep BY <1>2, <1>4, SameItemsSettle
<1>6. AskedIsHeld' /\ AbsentIsEmpty' BY <1>2, <1>3, HeldAndAbsentKept
<1>7. job'.phase = "idle" BY IdleJobFields DEF RunHold, Release
<1> QED BY <1>5, <1>6, <1>7 DEF LInv, SendsUnanswered

\* SENDING is committed for a batch that nobody had begun to send.
LEMMA SendBegins ==
    ASSUME IInv, LInv, NEW b \in Batches, Untouched(b), batch' = [batch EXCEPT ![b] = Sending(batch[b])],
           UNCHANGED <<item, reached>>, job'.cur = b
    PROVE  LedgerStep /\ AbsentIsEmpty' /\ SendsUnanswered'
<1>1. batch \in [Batches -> BatchRows] BY DEF IInv, TypeOK
<1>2. Sending(batch[b]).status = "sending" BY <1>1, SendingFields
<1>3. batch'[b].status = "sending" /\ \A c \in Batches \ {b} : batch'[c] = batch[c]
  BY <1>1, <1>2
<1>4. ~Untouched(b)' /\ \A c \in Batches \ {b} : Untouched(c)' = Untouched(c)
  BY <1>3 DEF Untouched
<1>5. LedgerStep BY <1>4, BatchReleased DEF IInv
<1>6. AbsentIsEmpty' BY <1>3 DEF LInv, AbsentIsEmpty
<1>7. \A s \in Skus : item[b][s].result \in {"absent", "pending"} BY DEF IInv, UntouchedIsClean
<1>8. SendsUnanswered' BY <1>7 DEF SendsUnanswered
<1> QED BY <1>5, <1>6, <1>8

LEMMA RunSendReleases ==
    ASSUME IInv, LInv, RunSend
    PROVE  LedgerStep /\ LInv'
<1>1. PICK b \in Batches : b = job.cur BY DEF IInv, RunSend, At, JobFitsBatch
<1>2. /\ batch \in [Batches -> BatchRows] /\ batch[b].status = "pending"
      /\ batch' = [batch EXCEPT ![b] = Sending(batch[b])]
      /\ item' = item /\ asked' = asked /\ reached' = reached
      /\ job \in Jobs /\ job' = [job EXCEPT !.phase = "sending"]
  BY <1>1 DEF IInv, TypeOK, RunSend, At, JobFitsBatch, SetBatch, world
<1>3. job'.cur = b BY <1>1, <1>2
<1>4. LedgerStep /\ AbsentIsEmpty' /\ SendsUnanswered'
  BY <1>2, <1>3, SendBegins DEF Untouched
<1>5. \A w \in Web : asked[w] # 0 => asked[w] \in Batches BY KnownBatches DEF IInv
<1>6. AskedIsHeld' BY <1>2, <1>5 DEF LInv, AskedIsHeld
<1> QED BY <1>4, <1>6 DEF LInv

LEMMA ApproveSendReleases ==
    ASSUME IInv, LInv, NEW w \in Web, Web = {Main}, ApproveSend(w)
    PROVE  LedgerStep /\ LInv'
<1>0. asked[w] # 0 BY DEF ApproveSend
<1>1. PICK b \in Batches : b = asked[w] BY <1>0, KnownBatches DEF IInv
<1>2. /\ batch[b].status = "awaiting_approval"
      /\ batch' = [batch EXCEPT ![b] = Sending(batch[b])]
      /\ item' = item /\ reached' = reached /\ \A v \in Web : asked'[v] = 0
      /\ job' = [IdleJob EXCEPT !.kind = "approve", !.phase = "sending", !.cur = b]
  BY <1>1 DEF IInv, TypeOK, LInv, AskedIsHeld, ApproveSend, TakeLock, SetBatch, world
<1>3. job'.cur = b BY <1>2 DEF IdleJob
<1>4. LedgerStep /\ AbsentIsEmpty' /\ SendsUnanswered' BY <1>2, <1>3, SendBegins DEF Untouched
<1>5. AskedIsHeld' BY <1>2 DEF AskedIsHeld
<1> QED BY <1>4, <1>5 DEF LInv

\* The one web process declines a batch while it asks for none.
LEMMA RejectReleases ==
    ASSUME IInv, LInv, NEW w \in Web, Web = {Main}, NEW b \in Batches, Reject(w, b)
    PROVE  LedgerStep /\ LInv'
<1>1. /\ batch \in [Batches -> BatchRows] /\ batch[b].status \notin {"absent", "pending", "rejected"}
      /\ batch' = [batch EXCEPT ![b] = [batch[b] EXCEPT !.status = "rejected"]]
      /\ item' = item /\ asked' = asked /\ reached' = reached /\ job' = job
      /\ \A v \in Web : asked[v] = 0
  BY DEF IInv, TypeOK, Reject, Serving, SetBatch, world
<1>2. batch'[b].status = "rejected" /\ \A c \in Batches \ {b} : batch'[c] = batch[c]
  BY <1>1 DEF BatchRows
<1>3. ~Untouched(b)' /\ \A c \in Batches \ {b} : Untouched(c)' = Untouched(c)
  BY <1>2 DEF Untouched
<1>4. LedgerStep
  <2>1. CASE Untouched(b) BY <1>1, <1>3, <2>1, BatchReleased DEF IInv
  <2>2. CASE ~Untouched(b)
    <3>1. \A c \in Batches : Untouched(c)' = Untouched(c) BY <1>3, <2>2 DEF Untouched
    <3> QED BY <1>1, <3>1, SameItemsSettle
  <2> QED BY <2>1, <2>2
<1>5. AskedIsHeld' BY <1>1 DEF AskedIsHeld
<1>6. AbsentIsEmpty' BY <1>1, <1>2 DEF LInv, AbsentIsEmpty
<1>7. SendsUnanswered' BY <1>1 DEF LInv, SendsUnanswered
<1> QED BY <1>4, <1>5, <1>6, <1>7 DEF LInv

-----------------------------------------------------------------------------
(* Sending.                                                                *)

\* A step of a send that takes some changes to Amazon, or none, and goes on or ends.
LEMMA SendingReaches ==
    ASSUME IInv, LInv, job.phase = "sending", UNCHANGED <<batch, item, asked>>,
           NEW taken \in SUBSET Listed(item[job.cur]),
           \/ Reach(taken)
           \/ UNCHANGED world,
           job'.phase \notin {"sending", "stopped"} \/ job'.cur = job.cur
    PROVE  LedgerStep /\ LInv'
<1>1. LedgerStep
  <2>1. CASE Reach(taken) BY <2>1, UnansweredReach DEF Reach, LInv
  <2>2. CASE UNCHANGED world BY <2>2, SameRowsSettle DEF world
  <2> QED BY <2>1, <2>2
<1>2. LInv' BY LInvKept
<1> QED BY <1>1, <1>2

LEMMA SendStepReaches ==
    ASSUME IInv, LInv, SendStep
    PROVE  LedgerStep /\ LInv'
<1>0. job \in Jobs BY DEF IInv, TypeOK
<1>1. ASSUME NEW s \in Skus, PatchItem(s) PROVE LedgerStep /\ LInv'
  <2>1. s \in Listed(item[job.cur]) /\ job.phase = "sending" BY <1>1 DEF PatchItem, Unsent
  <2>2. {s} \in SUBSET Listed(item[job.cur]) BY <2>1
  <2>3. job'.cur = job.cur BY <1>0, <1>1 DEF PatchItem, Jobs
  <2>4. Reach({s}) \/ UNCHANGED world BY <1>1 DEF PatchItem
  <2> QED BY <1>1, <2>1, <2>2, <2>3, <2>4, SendingReaches DEF PatchItem, rows
<1>2. ASSUME NEW s \in Skus, PatchRaises(s) PROVE LedgerStep /\ LInv'
  <2>1. s \in Listed(item[job.cur]) /\ job.phase = "sending" BY <1>2 DEF PatchRaises, Unsent
  <2>2. {s} \in SUBSET Listed(item[job.cur]) BY <2>1
  <2>3. job'.cur = job.cur BY <1>0, <1>2 DEF PatchRaises, Jobs
  <2>4. Reach({s}) \/ UNCHANGED world BY <1>2 DEF PatchRaises
  <2> QED BY <1>2, <2>1, <2>2, <2>3, <2>4, SendingReaches DEF PatchRaises, rows
<1>3. CASE SendFeed
  <2>1. job.phase = "sending" /\ UNCHANGED <<batch, item, asked>> BY <1>3 DEF SendFeed, rows
  <2>2. job'.cur = job.cur BY <1>0, <1>3 DEF SendFeed, Jobs
  <2>3. \E taken \in SUBSET Listed(item[job.cur]) : Reach(taken) \/ UNCHANGED world
    <3>1. PICK refused \in SUBSET Listed(item[job.cur]) :
             \/ UNCHANGED world
             \/ Reach(Existing(Listed(item[job.cur]) \ refused))
             \/ \E taken \in SUBSET Existing(Listed(item[job.cur])) : Reach(taken)
      BY <1>3 DEF SendFeed
    <3>2. \A some \in SUBSET Listed(item[job.cur]) : Existing(some) \in SUBSET Listed(item[job.cur])
      BY DEF Existing
    <3>3. /\ Existing(Listed(item[job.cur]) \ refused) \in SUBSET Listed(item[job.cur])
          /\ Existing(Listed(item[job.cur])) \subseteq Listed(item[job.cur])
          /\ {} \in SUBSET Listed(item[job.cur])
      BY <3>2
    <3> QED BY <3>1, <3>3
  <2> QED BY <2>1, <2>2, <2>3, SendingReaches
<1>4. CASE FeedRaises
  <2>1. job.phase = "sending" /\ UNCHANGED <<batch, item, asked>> BY <1>4 DEF FeedRaises, rows
  <2>2. job'.phase = "idle" BY <1>4, IdleJobFields DEF FeedRaises, Release
  <2>3. PICK taken \in SUBSET Existing(Listed(item[job.cur])) : Reach(taken)
    BY <1>4 DEF FeedRaises
  <2>4. taken \in SUBSET Listed(item[job.cur]) BY DEF Existing
  <2> QED BY <2>1, <2>2, <2>3, <2>4, SendingReaches
<1> QED BY <1>1, <1>2, <1>3, <1>4 DEF SendStep

-----------------------------------------------------------------------------
(* The catalogue refresh.                                                  *)

LEMMA RefreshStoreSettles ==
    ASSUME IInv, LInv, RefreshStore
    PROVE  LedgerStep /\ LInv'
<1>1. TypeOK /\ item' = [b \in Batches |-> Settled(b)] /\ asked' = asked /\ reached' = reached
  BY DEF IInv, RefreshStore, world
<1>2. \A b \in Batches : \/ batch'[b] = batch[b]
                         \/ batch[b].status = "sent" /\ batch'[b].status = "verified"
  BY <1>1 DEF RefreshStore, TypeOK, BatchRows
<1>3. \A b \in Batches : Untouched(b)' = Untouched(b)
  <2>1. ASSUME NEW b \in Batches PROVE Untouched(b)' <=> Untouched(b) BY <1>2 DEF Untouched
  <2> QED BY <2>1 DEF Untouched
<1>4. ASSUME NEW b \in Batches, NEW s \in Skus
      PROVE  Answers(item[b][s], item'[b][s], Untouched(b))
  <2>1. item'[b][s] = Settled(b)[s] BY <1>1
  <2>2. CASE Settled(b)[s] = item[b][s] BY <2>1, <2>2 DEF Answers
  <2>3. CASE Settled(b)[s] # item[b][s]
    <3>1. /\ item[b][s].result = "accepted" /\ job.report[s] \in Qty
          /\ Settled(b)[s] = Judge(item[b][s], job.report[s], batch[b].aged)
      BY <1>1, <2>3, SettledEffect
    <3>2. item[b][s] \in ItemRows /\ batch[b].aged \in BOOLEAN BY <1>1 DEF TypeOK, BatchRows
    <3>3. /\ Judge(item[b][s], job.report[s], batch[b].aged).prev = item[b][s].prev
          /\ Judge(item[b][s], job.report[s], batch[b].aged).new = item[b][s].new
          /\ Judge(item[b][s], job.report[s], batch[b].aged).result
                \in {"accepted", "verified", "not_applied"}
      BY <3>1, <3>2, JudgeEffect
    <3>4. ~Untouched(b) BY <3>1 DEF IInv, UntouchedIsClean
    <3> QED BY <2>1, <3>1, <3>3, <3>4 DEF Answers
  <2> QED BY <2>2, <2>3
<1>5. LedgerStep BY <1>1, <1>3, <1>4, AnswersSettle
<1>6. ASSUME NEW b \in Batches, batch'[b].status = "absent"
      PROVE  batch[b].status = "absent" /\ item'[b] = item[b]
  <2>1. batch[b].status = "absent" BY <1>2, <1>6
  <2>2. \A s \in Skus : Settled(b)[s] = item[b][s]
    BY <2>1 DEF Settled, Settleable, UndoableStatuses
  <2>3. item[b] = [s \in Skus |-> item[b][s]] BY <1>1 DEF TypeOK
  <2>4. Settled(b) = [s \in Skus |-> Settled(b)[s]] BY DEF Settled
  <2>5. Settled(b) = item[b] BY <2>2, <2>3, <2>4
  <2> QED BY <1>1, <2>1, <2>5
<1>7. \A b \in Batches : batch[b].status = "awaiting_approval" => batch'[b].status = "awaiting_approval"
  BY <1>2
<1>8. AskedIsHeld' /\ AbsentIsEmpty' BY <1>1, <1>6, <1>7, HeldAndAbsentKept
<1>9. job'.phase = "idle" BY IdleJobFields DEF RefreshStore, Release
<1> QED BY <1>5, <1>8, <1>9 DEF LInv, SendsUnanswered

-----------------------------------------------------------------------------
(* Steps that write no row, or none the ledger knows of.                   *)

LEMMA AgesSettles ==
    ASSUME IInv, LInv, NEW b \in Batches, Ages(b)
    PROVE  LedgerStep /\ LInv'
<1>1. /\ batch \in [Batches -> BatchRows] /\ batch' = [batch EXCEPT ![b] = [batch[b] EXCEPT !.aged = TRUE]]
      /\ UNCHANGED <<item, reached, job, asked>>
  BY DEF IInv, TypeOK, Ages, SetBatch, world
<1>2. \A c \in Batches : batch'[c].status = batch[c].status
  <2>1. batch'[b].status = batch[b].status BY <1>1 DEF BatchRows
  <2>2. \A c \in Batches \ {b} : batch'[c] = batch[c] BY <1>1
  <2> QED BY <2>1, <2>2
<1>3. LedgerStep BY <1>1, <1>2, SameItemsSettle DEF Untouched
<1>4. AskedIsHeld' /\ AbsentIsEmpty' BY <1>1, <1>2, HeldAndAbsentKept
<1>5. SendsUnanswered' BY <1>1 DEF LInv, SendsUnanswered
<1> QED BY <1>3, <1>4, <1>5 DEF LInv

\* A job starts, moves on, or ends without having written.
LEMMA QuietSettles ==
    ASSUME IInv, LInv, UNCHANGED <<batch, item, reached>>,
           \A w \in Web : asked'[w] \in {0, asked[w]},
           \/ job'.phase \notin {"sending", "stopped"}
           \/ job' = job
    PROVE  LedgerStep /\ LInv'
BY SameRowsSettle, LInvKept

LEMMA QuietRunSettles ==
    ASSUME IInv, LInv, RunOpen \/ RunRecovered \/ RunEndsEarly
    PROVE  LedgerStep /\ LInv'
<1>1. UNCHANGED <<batch, item, reached, asked>> /\ job \in Jobs
  BY DEF RunOpen, RunRecovered, RunEndsEarly, rows, world, IInv, TypeOK
<1>2. job'.phase \notin {"sending", "stopped"}
  <2>1. CASE Release BY <2>1, IdleJobFields DEF Release
  <2>2. CASE job' = [job EXCEPT !.phase = "settling", !.mode = mode] BY <1>1, <2>2 DEF Jobs
  <2>3. CASE job' = [job EXCEPT !.phase = "confirming", !.targets = Unconfirmed]
    BY <1>1, <2>3 DEF Jobs
  <2> QED BY <2>1, <2>2, <2>3 DEF RunOpen, RunRecovered, RunEndsEarly
<1> QED BY <1>1, <1>2, QuietSettles

LEMMA QuietStartSettles ==
    ASSUME IInv, LInv, RefreshStart \/ \E a \in Actors : RunStart(a)
    PROVE  LedgerStep /\ LInv'
<1>1. UNCHANGED <<batch, item, reached, asked>> BY DEF RefreshStart, RunStart, rows, world
<1>2. job'.phase \in {"opening", "reporting"}
  BY DEF RefreshStart, RunStart, TakeLock, IdleJob
<1> QED BY <1>1, <1>2, QuietSettles

LEMMA ApproveCheckSettles ==
    ASSUME IInv, LInv, NEW w \in Web, NEW b \in Batches, ApproveCheck(w, b)
    PROVE  LedgerStep /\ LInv'
<1>1. /\ UNCHANGED <<batch, item, reached, job>> /\ batch[b].status = "awaiting_approval"
      /\ asked \in [Web -> 0..MaxBatch] /\ asked' = [asked EXCEPT ![w] = b]
  BY DEF ApproveCheck, rows, world, IInv, TypeOK
<1>2. LedgerStep BY <1>1, SameRowsSettle
<1>3. AskedIsHeld' BY <1>1 DEF LInv, AskedIsHeld
<1>4. SendsUnanswered' /\ AbsentIsEmpty' BY <1>1 DEF LInv, SendsUnanswered, AbsentIsEmpty
<1> QED BY <1>2, <1>3, <1>4 DEF LInv

LEMMA QuietWebSettles ==
    ASSUME IInv, LInv, NEW w \in Web,
           ApproveGivesUp(w) \/ TogglePause(w) \/ \E m \in Modes : SetMode(w, m)
    PROVE  LedgerStep /\ LInv'
<1>1. UNCHANGED <<batch, item, reached, job>> /\ asked \in [Web -> 0..MaxBatch]
  BY DEF ApproveGivesUp, TogglePause, SetMode, rows, world, IInv, TypeOK
<1>2. asked' = asked \/ asked' = [asked EXCEPT ![w] = 0]
  BY DEF ApproveGivesUp, TogglePause, SetMode
<1>3. \A v \in Web : asked'[v] \in {0, asked[v]} BY <1>1, <1>2
<1> QED BY <1>1, <1>3, QuietSettles

LEMMA EnvironmentSettles ==
    ASSUME IInv, LInv, Environment
    PROVE  LedgerStep /\ LInv'
<1>0. asked \in [Web -> 0..MaxBatch] BY DEF IInv, TypeOK
<1>1. CASE Abort
  <2>1. UNCHANGED <<batch, item, reached, asked>> BY <1>1 DEF Abort, rows, world
  <2>2. job'.phase = "idle" BY <1>1, IdleJobFields DEF Abort, Release
  <2> QED BY <2>1, <2>2, QuietSettles
<1>2. ASSUME NEW w \in Web, Crash(w) PROVE LedgerStep /\ LInv'
  <2>1. UNCHANGED <<batch, item, reached>> BY <1>2 DEF Crash, rows, world
  <2>2. \A v \in Web : asked'[v] \in {0, asked[v]} BY <1>0, <1>2 DEF Crash
  <2>3. job'.phase = "idle" \/ job' = job BY <1>2, IdleJobFields DEF Crash, Release
  <2> QED BY <2>1, <2>2, <2>3, QuietSettles
<1>3. CASE \E b \in Batches : Ages(b) BY <1>3, AgesSettles
<1>4. CASE \E s \in Skus : AmazonSettles(s) \/ SellerDeletes(s) \/ \E q \in Qty : SellerEdits(s, q)
  <2>1. UNCHANGED <<batch, item, reached, job, asked>>
    BY <1>4 DEF AmazonSettles, SellerDeletes, SellerEdits, rows
  <2> QED BY <2>1, QuietSettles
<1> QED BY <1>1, <1>2, <1>3, <1>4 DEF Environment

-----------------------------------------------------------------------------
(* The theorem.                                                            *)

LEMMA InitMaps == Init => Ledger!Init /\ LInv
<1> SUFFICES ASSUME Init PROVE Ledger!Init /\ LInv OBVIOUS
<1>1. /\ \A b \in Batches : batch[b] = NoBatch
      /\ \A b \in Batches, s \in Skus : item[b][s] = NoItem
      /\ job = IdleJob /\ reached = {} /\ \A w \in Web : asked[w] = 0
  BY DEF Init
<1>2. \A b \in Batches, s \in Skus : item[b][s].result = "absent" BY <1>1 DEF NoItem
<1>3. ASSUME NEW c \in Changes PROVE StageOf(c) = "none" /\ TermsOf(c) = NoQty
  <2>1. c[1] \in Batches /\ c[2] \in Skus BY DEF Changes
  <2> QED BY <1>2, <2>1 DEF StageOf, TermsOf
<1>4. Ledger!Init BY <1>1, <1>3 DEF Ledger!Init
<1>5. LInv BY <1>1, <1>2, IdleJobFields DEF LInv, AskedIsHeld, SendsUnanswered, AbsentIsEmpty
<1> QED BY <1>4, <1>5

LEMMA NextMaps == Web = {Main} /\ IInv /\ LInv /\ [Next]_vars => LedgerStep /\ LInv'
<1> SUFFICES ASSUME Web = {Main}, IInv, LInv, [Next]_vars PROVE LedgerStep /\ LInv'
  OBVIOUS
<1>1. CASE RunStart(Scheduler) \/ RefreshStart BY <1>1, QuietStartSettles DEF Actors
<1>2. CASE RunStep
  BY <1>2, QuietRunSettles, RunHoldRecords, RunSendReleases, RunAccountSettles, RunVerifySettles,
     RunRecoverSettles, RunConfirmSettles, RunRecordRecords DEF RunStep
<1>3. CASE SendStep BY <1>3, SendStepReaches
<1>4. CASE HandlerCommit BY <1>4, HandlerCommitSettles
<1>5. CASE RefreshStore BY <1>5, RefreshStoreSettles
<1>6. ASSUME NEW w \in Web, WebStep(w) PROVE LedgerStep /\ LInv'
  <2>1. CASE RunStart(w) BY <2>1, QuietStartSettles DEF Actors
  <2>2. CASE ApproveSend(w) BY <2>2, ApproveSendReleases
  <2>3. CASE ApproveGivesUp(w) \/ TogglePause(w) \/ \E m \in Modes : SetMode(w, m)
    BY <2>3, QuietWebSettles
  <2>4. CASE \E b \in Batches : ApproveCheck(w, b) \/ Reject(w, b)
    BY <2>4, ApproveCheckSettles, RejectReleases
  <2>5. CASE \E b \in Batches, ids \in SUBSET Batches : UndoSend(w, b, ids)
    BY <2>5, UndoSendRecords
  <2> QED BY <1>6, <2>1, <2>2, <2>3, <2>4, <2>5 DEF WebStep
<1>7. CASE Environment BY <1>7, EnvironmentSettles
<1>8. CASE UNCHANGED vars BY <1>8, QuietSettles DEF vars
<1> QED BY <1>1, <1>2, <1>3, <1>4, <1>5, <1>6, <1>7, <1>8 DEF Next

\* With one web process, as it is deployed, each change is written down before it may go
\* out, goes out only while it is on record as released and unanswered, and passes through
\* its stages once and forward, its terms unchanged: whatever jobs, crashes, aborted
\* sessions and read-backs interleave.  (create_batch, send_batch, verify_batch,
\* _recover_interrupted_batches, confirm_from_catalogue)
THEOREM LedgerIsImplemented == Web = {Main} => (Spec => LedgerIsKept)
<1> SUFFICES ASSUME Web = {Main} PROVE Spec => LedgerIsKept OBVIOUS
<1>1. Init => Ledger!Init /\ LInv BY InitMaps
<1>2. IInv /\ LInv /\ [Next]_vars => [Ledger!Next]_(Ledger!vars) /\ LInv'
  BY NextMaps DEF LedgerStep
<1> QED BY <1>1, <1>2, Invariance, PTL DEF Spec, LedgerIsKept, Ledger!Spec
=============================================================================
