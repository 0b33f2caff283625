--------------------------- MODULE PushInvariant ---------------------------
(***************************************************************************)
(* The inductive invariant behind the safety properties of PushLifecycle:  *)
(* what holds between any two steps of any job, and makes each of the      *)
(* properties survive the next step.                                       *)
(***************************************************************************)
EXTENDS PushLifecycle

\* A batch nobody began to send.
Untouched(b) == batch[b].status \in {"absent", "pending", "awaiting_approval"}

\* The session of a job lives no longer than its lock.
SessionEndsWithLock == lock = NoOne => job = IdleJob

\* Where a job stands, and what that says of the batch it works on.
JobFitsBatch ==
    /\ job.phase \notin {"recorded", "sending", "stopped", "accounted"} => job.cur = 0
    /\ job.phase = "recorded" =>
          /\ job.cur \in Batches
          /\ batch[job.cur].status = "pending" /\ batch[job.cur].mode = job.mode
    /\ job.phase \in {"sending", "stopped", "accounted"} => job.cur \in Batches /\ ~Untouched(job.cur)
    /\ \A b \in job.targets : ~Untouched(b)
    /\ \A s \in Skus : job.sess[s] # "none" =>
          /\ job.phase \in {"sending", "stopped", "accounted"}
          /\ item[job.cur][s].result # "absent"

\* An item knows both its quantities, and is verified only by a read-back of
\* the quantity that was sent.
Complete(row) ==
    /\ row.result # "absent" => row.prev \in Qty /\ row.new \in Qty
    /\ row.result = "verified" => row.read = row.new

ItemsAreComplete == \A b \in Batches, s \in Skus : Complete(item[b][s])

\* A batch nobody began to send has no result and reached nobody.
UntouchedIsClean ==
    \A b \in Batches : Untouched(b) =>
        \A s \in Skus : item[b][s].result \in {"absent", "pending"} /\ <<b, s>> \notin reached

\* Whatever reached Amazon has its row.
ReachedIsListed == \A p \in reached : item[p[1]][p[2]].result # "absent"

\* A practice run's batch stays a proposal.
PracticeStaysPending ==
    \A b \in Batches : batch[b].status \notin {"absent", "pending"} => batch[b].mode # "dry_run"

\* What a web process asked for was at least waiting for an answer.
AskedWasHeld == \A w \in Web : asked[w] # 0 => batch[asked[w]].status \notin {"absent", "pending"}

\* Past its recovery step a run sees no other batch SENDING.
NoWreckagePastRecovery ==
    job.kind = "run" /\ job.phase \in {"confirming", "recorded", "sending", "stopped", "accounted"}
    => \A b \in Batches : b = job.cur \/ batch[b].status # "sending"

IInv ==
    /\ TypeOK
    /\ SessionEndsWithLock
    /\ JobFitsBatch
    /\ ItemsAreComplete
    /\ UntouchedIsClean
    /\ ReachedIsListed
    /\ PracticeStaysPending
    /\ AskedWasHeld
    /\ NoWreckagePastRecovery
    /\ VerifiedBatchIsClosed
=============================================================================
