----------------------------- MODULE RunRecords -----------------------------
(***************************************************************************)
(* How a run ends on record, and how its alert is mailed.  A run commits a *)
(* row RUNNING when it opens and its outcome when its caller's session is  *)
(* committed; what its own session holds is lost if that fails.  A process *)
(* that starts closes the rows that say RUNNING.  Alerts are rows first    *)
(* and mails later: flush_queue reads the unsent ones, mails them one by   *)
(* one, and its caller commits that they were sent.  The alerts of a run   *)
(* are one row here.  Whom it names is up to the settings, whose lists may *)
(* be empty: a row that names nobody is marked as sent, lest it be tried   *)
(* for ever.                                                               *)
(***************************************************************************)
EXTENDS FiniteSets, Integers

CONSTANTS
    Procs,          \* processes of the application
    Main,           \* the one whose scheduler is enabled
    MaxRuns,        \* runs considered
    Limit,          \* alerts one flush takes
    Undeliverable,  \* runs whose alert the mail server refuses
    Unaddressed,    \* runs whose alert names no recipients
    MaxCrashes      \* crashes considered

Runs == 1..MaxRuns

ASSUME ProcAssumption == Main \in Procs
ASSUME BoundAssumption == MaxRuns \in Nat \ {0} /\ Limit \in Nat \ {0} /\ MaxCrashes \in Nat
ASSUME MailAssumption ==
    /\ Undeliverable \subseteq Runs /\ Cardinality(Undeliverable) < Limit
    /\ Unaddressed \subseteq Runs

VARIABLES
    state,    \* a process: down, starting, up
    leftover, \* the rows a starting process has read as RUNNING
    run,      \* committed status of a run
    alert,    \* committed row of the alert of a run
    job,      \* the run in progress and the session of its caller
    flush,    \* the sessions that flush the queue: of the job, of the sweep
    mailed,   \* how often the alert of a run was mailed, counted to two
    closed,   \* history: runs closed by a starting process
    broken,   \* history: runs whose session could not be committed at the end
    crashes   \* crashes so far

vars == <<state, leftover, run, alert, job, flush, mailed, closed, broken, crashes>>
history == <<closed, broken, crashes>>

\* own: the run's alert is absent, added to the session, or flushed as well;
\* aborted: the transaction of the session has failed and takes no more statements.
NoJob == [phase |-> "none", proc |-> Main, run |-> 0, verdict |-> "running", own |-> "none",
          aborted |-> FALSE]
JobStates == [phase: {"none", "working", "failing", "tidying", "ending", "mailing"}, proc: Procs,
              run: 0..MaxRuns, verdict: {"running", "ended", "failed"},
              own: {"none", "added", "flushed"}, aborted: BOOLEAN]

NoFlush == [on |-> FALSE, todo |-> {}, done |-> {}]
Flushes == [on: BOOLEAN, todo: SUBSET Runs, done: SUBSET Runs]

TypeOK ==
    /\ state \in [Procs -> {"down", "starting", "up"}]
    /\ leftover \in [Procs -> SUBSET Runs]
    /\ run \in [Runs -> {"absent", "running", "ended", "failed"}]
    /\ alert \in [Runs -> {"none", "unsent", "sent"}]
    /\ job \in JobStates
    /\ flush \in [{"job", "sweep"} -> Flushes]
    /\ mailed \in [Runs -> 0..2]
    /\ closed \subseteq Runs /\ broken \subseteq Runs
    /\ crashes \in 0..MaxCrashes

Init ==
    /\ state = [p \in Procs |-> "up"]
    /\ leftover = [p \in Procs |-> {}]
    /\ run = [r \in Runs |-> "absent"]
    /\ alert = [r \in Runs |-> "none"]
    /\ job = NoJob
    /\ flush = [f \in {"job", "sweep"} |-> NoFlush]
    /\ mailed = [r \in Runs |-> 0]
    /\ closed = {} /\ broken = {} /\ crashes = 0

-----------------------------------------------------------------------------
(* A run, from its opening checkpoint to the commit of its caller. *)

\* execute_run up to the checkpoint that makes the row visible; the lock is held.
Open(p) ==
    /\ state[p] = "up" /\ job.phase = "none"
    /\ \E r \in Runs :
          /\ run[r] = "absent" /\ \A q \in 1..(r - 1) : run[q] # "absent"
          /\ run' = [run EXCEPT ![r] = "running"]
          /\ job' = [NoJob EXCEPT !.phase = "working", !.proc = p, !.run = r]
    /\ UNCHANGED <<state, leftover, alert, flush, mailed, history>>

\* The body of the run returns, as completed, without changes or halted by a guardrail,
\* and may have queued an alert; or a send had errors, and it has.
Return ==
    /\ job.phase = "working"
    /\ \E own \in {"none", "added"}, verdict \in {"ended", "failed"} :
          /\ verdict = "failed" => own = "added"
          /\ job' = [job EXCEPT !.phase = "tidying", !.verdict = verdict, !.own = own]
    /\ UNCHANGED <<state, leftover, run, alert, flush, mailed, history>>

\* It raises; a database error leaves the transaction aborted.
Raise ==
    /\ job.phase = "working"
    /\ \E a \in BOOLEAN : job' = [job EXCEPT !.phase = "failing", !.aborted = a]
    /\ UNCHANGED <<state, leftover, run, alert, flush, mailed, history>>

\* A mutant of Recorded: the alert is added before the session is rolled back.
RecordedFirst(j) == [j EXCEPT !.aborted = FALSE, !.own = "none", !.verdict = "failed"]

\* A mutant of Recorded: the session is used as it is.
RecordedAborted(j) == [j EXCEPT !.own = "added", !.verdict = "failed"]

\* The handlers of execute_run: roll back, then status and alert.
Recorded(j) == [j EXCEPT !.aborted = FALSE, !.own = "added", !.verdict = "failed"]

Handle ==
    /\ job.phase = "failing"
    /\ job' = [Recorded(job) EXCEPT !.phase = "tidying"]
    /\ UNCHANGED <<state, leftover, run, alert, flush, mailed, history>>

\* A connection that cannot even be rolled back: the handler writes to no effect.
HandleInVain ==
    /\ job.phase = "failing" /\ job.aborted
    /\ job' = [job EXCEPT !.phase = "tidying", !.verdict = "failed", !.own = "added"]
    /\ broken' = broken \cup {job.run}
    /\ UNCHANGED <<state, leftover, run, alert, flush, mailed, closed, crashes>>

\* The finally clause: errors of _housekeeping are swallowed, one of the database
\* leaves the transaction aborted.
Tidy ==
    /\ job.phase = "tidying"
    /\ \/ job' = [job EXCEPT !.phase = "ending"] /\ UNCHANGED broken
       \/ /\ job' = [job EXCEPT !.phase = "ending", !.aborted = TRUE]
          /\ broken' = broken \cup {job.run}
    /\ UNCHANGED <<state, leftover, run, alert, flush, mailed, closed, crashes>>

\* job_sync queues the summary that is sent after every run; queue flushes the session,
\* and with it an alert the run has added.
Summarise ==
    /\ job.phase = "ending" /\ job.proc = Main /\ ~job.aborted
    /\ job.verdict = "ended" /\ job.own # "flushed"
    /\ job' = [job EXCEPT !.own = "flushed"]
    /\ UNCHANGED <<state, leftover, run, alert, flush, mailed, history>>

Unsent == {r \in Runs : alert[r] = "unsent"}

\* The oldest of the unsent alerts a session can see.
Pending(seen) == {r \in seen : Cardinality({q \in seen : q < r}) < Limit}

\* flush_queue at the end of job_sync, which takes nothing while the mail server cannot
\* be reached.
JobFlush ==
    /\ job.phase = "ending" /\ job.proc = Main /\ ~job.aborted
    /\ job' = [job EXCEPT !.phase = "mailing"]
    /\ \E todo \in {{}, Pending(Unsent \cup (IF job.own = "flushed" THEN {job.run} ELSE {}))} :
          flush' = [flush EXCEPT !["job"] = [NoFlush EXCEPT !.on = TRUE, !.todo = todo]]
    /\ UNCHANGED <<state, leftover, run, alert, mailed, history>>

\* The caller's commit.  A run started on a page does not flush the queue.
Commit ==
    /\ \/ job.phase = "mailing" /\ flush["job"].todo = {}
       \/ job.phase = "ending" /\ job.proc # Main
    /\ ~job.aborted
    /\ run' = [run EXCEPT ![job.run] = job.verdict]
    /\ alert' = [r \in Runs |-> IF r \in flush["job"].done THEN "sent"
                                ELSE IF r = job.run /\ job.own # "none" THEN "unsent"
                                ELSE alert[r]]
    /\ job' = NoJob
    /\ flush' = [flush EXCEPT !["job"] = NoFlush]
    /\ UNCHANGED <<state, leftover, mailed, history>>

\* Any statement on an aborted transaction raises: the session is rolled back.
CommitFails ==
    /\ job.phase = "ending" /\ job.aborted
    /\ job' = NoJob
    /\ UNCHANGED <<state, leftover, run, alert, flush, mailed, history>>

-----------------------------------------------------------------------------
(* The outbox. *)

\* The hourly job and the digest flush without the lock.  A sweep that cannot reach the
\* mail server changes nothing here.
SweepStart ==
    /\ state[Main] = "up" /\ ~flush["sweep"].on /\ Unsent # {}
    /\ flush' = [flush EXCEPT !["sweep"] = [NoFlush EXCEPT !.on = TRUE, !.todo = Pending(Unsent)]]
    /\ UNCHANGED <<state, leftover, run, alert, job, mailed, history>>

\* A mutant of Skipped: one refused mail ends the flush.
SkippedAll(q, r) == [q EXCEPT !.todo = {}]

\* An alert that is done with will be marked as sent.
Done(q, r) == [q EXCEPT !.todo = @ \ {r}, !.done = @ \cup {r}]

\* A mutant of Skipped: a refused mail counts as sent.
SkippedAsSent(q, r) == Done(q, r)

\* A mail that is refused stays unsent; the flush goes on.
Skipped(q, r) == [q EXCEPT !.todo = @ \ {r}]

Mailed(r) == mailed' = [mailed EXCEPT ![r] = IF @ < 2 THEN @ + 1 ELSE 2]

\* What flush_queue does with one alert: nobody to tell, refused, or mailed.
MailOne(f) ==
    LET Becomes(q) == flush' = [flush EXCEPT ![f] = q] IN
    \E r \in flush[f].todo :
        /\ \A s \in flush[f].todo : r <= s
        /\ \/ r \in Unaddressed /\ Becomes(Done(flush[f], r)) /\ UNCHANGED mailed
           \/ /\ r \in Undeliverable \ Unaddressed
              /\ Becomes(Skipped(flush[f], r)) /\ UNCHANGED mailed
           \/ r \notin Undeliverable \cup Unaddressed /\ Becomes(Done(flush[f], r)) /\ Mailed(r)
        /\ UNCHANGED <<state, leftover, run, alert, job, history>>

SweepCommit ==
    /\ flush["sweep"].on /\ flush["sweep"].todo = {}
    /\ alert' = [r \in Runs |-> IF r \in flush["sweep"].done THEN "sent" ELSE alert[r]]
    /\ flush' = [flush EXCEPT !["sweep"] = NoFlush]
    /\ UNCHANGED <<state, leftover, run, job, mailed, history>>

-----------------------------------------------------------------------------
(* The processes. *)

Crash(p) ==
    /\ state[p] # "down" /\ crashes < MaxCrashes
    /\ crashes' = crashes + 1
    /\ state' = [state EXCEPT ![p] = "down"]
    /\ leftover' = [leftover EXCEPT ![p] = {}]
    /\ job' = IF job.phase # "none" /\ job.proc = p THEN NoJob ELSE job
    /\ flush' = [flush EXCEPT !["job"] = IF job.proc = p THEN NoFlush ELSE @,
                              !["sweep"] = IF p = Main THEN NoFlush ELSE @]
    /\ UNCHANGED <<run, alert, mailed, closed, broken>>

Running == {r \in Runs : run[r] = "running"}

\* close_interrupted_runs reads, then writes.
StartRead(p) ==
    /\ state[p] = "down"
    /\ state' = [state EXCEPT ![p] = "starting"]
    /\ leftover' = [leftover EXCEPT ![p] = Running]
    /\ UNCHANGED <<run, alert, job, flush, mailed, history>>

StartClose(p) ==
    /\ state[p] = "starting"
    /\ state' = [state EXCEPT ![p] = "up"]
    /\ leftover' = [leftover EXCEPT ![p] = {}]
    /\ run' = [r \in Runs |-> IF r \in leftover[p] THEN "failed" ELSE run[r]]
    /\ closed' = closed \cup leftover[p]
    /\ UNCHANGED <<alert, job, flush, mailed, broken, crashes>>

JobStep == Return \/ Raise \/ Handle \/ HandleInVain \/ Tidy \/ Summarise \/ JobFlush
           \/ MailOne("job") \/ Commit \/ CommitFails

Next ==
    \/ \E p \in Procs : Open(p) \/ Crash(p) \/ StartRead(p) \/ StartClose(p)
    \/ JobStep
    \/ SweepStart \/ MailOne("sweep") \/ SweepCommit

Spec == Init /\ [][Next]_vars

\* Jobs and sweeps go on, a process that stopped is started again, and now and then the
\* mail server is there when a sweep needs it.
Fairness ==
    /\ WF_vars(JobStep)
    /\ WF_vars(SweepStart) /\ WF_vars(MailOne("sweep")) /\ WF_vars(SweepCommit)
    /\ \A p \in Procs : WF_vars(StartRead(p)) /\ WF_vars(StartClose(p))

FairSpec == Spec /\ Fairness

-----------------------------------------------------------------------------
(* Properties. *)

\* A run that recorded its own failure has put an alert on record with it: no failure of
\* the database separates the two.  (execute_run, _recover_session)
FailureIsAlerted == \A r \in Runs : run[r] = "failed" /\ r \notin closed => alert[r] # "none"

\* A row that says RUNNING though nothing works on it is owed to a process that has not
\* come back yet, or to a session that broke under its last statements.
\* (close_interrupted_runs, _recover_session)
CorpseHasCause == \A r \in Runs :
    run[r] = "running" /\ job.run # r => r \in broken \/ \E p \in Procs : state[p] # "up"

\* An alert on record as sent that names a recipient has been mailed, and not merely been
\* taken from the queue.  (flush_queue)
SentWasMailed == \A r \in Runs \ Unaddressed : alert[r] = "sent" => mailed[r] > 0

\* An alert on record is done with in the end, mailed unless it names nobody, however many
\* mails are refused before it as long as they do not fill a flush.  (flush_queue)
AlertIsMailed == \A r \in (Runs \ Undeliverable) \cup Unaddressed :
    alert[r] = "unsent" ~> alert[r] = "sent" /\ (r \notin Unaddressed => mailed[r] > 0)
=============================================================================
