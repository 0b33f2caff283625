-------------------------- MODULE RunRecords_proofs --------------------------
(***************************************************************************)
(* What RunRecords promises for any processes, any number of runs, any     *)
(* flush size and any number of crashes.                                   *)
(***************************************************************************)
EXTENDS RunRecords, TLAPS

-----------------------------------------------------------------------------
(* The inductive invariant. *)

\* What the program of a run has reached, and what has been done by then.
JobInv ==
    /\ IF job.phase = "none" THEN job.run = 0 ELSE job.run \in Runs
    /\ job.phase = "working" => ~job.aborted
    /\ job.phase \in {"tidying", "ending", "mailing"} =>
          job.verdict # "running" /\ (job.aborted => job.run \in broken)
    /\ job.verdict = "failed" => job.own # "none"

\* A process that will look for run r has not looked yet, or has found it.
WillClose(p, r) == state[p] = "down" \/ (state[p] = "starting" /\ r \in leftover[p])

CorpseIsSeen == \A r \in Runs :
    run[r] = "running" /\ job.run # r => r \in broken \/ \E p \in Procs : WillClose(p, r)

DoneWasMailed == \A f \in {"job", "sweep"} : \A r \in flush[f].done \ Unaddressed : mailed[r] > 0

IInv == TypeOK /\ JobInv /\ CorpseIsSeen /\ DoneWasMailed /\ FailureIsAlerted /\ SentWasMailed

-----------------------------------------------------------------------------
(* Types. *)

LEMMA JobTyped ==
    ASSUME TypeOK
    PROVE  /\ job.phase \in {"none", "working", "failing", "tidying", "ending", "mailing"}
           /\ job.proc \in Procs /\ job.run \in 0..MaxRuns
           /\ job.verdict \in {"running", "ended", "failed"}
           /\ job.own \in {"none", "added", "flushed"} /\ job.aborted \in BOOLEAN
BY DEF TypeOK, JobStates

LEMMA NoJobTyped ==
    /\ NoJob \in JobStates /\ NoJob.phase = "none" /\ NoJob.run = 0 /\ NoJob.verdict = "running"
    /\ NoJob.own = "none"
BY ProcAssumption, BoundAssumption DEF NoJob, JobStates

LEMMA NoFlushTyped == NoFlush \in Flushes /\ NoFlush.done = {} /\ NoFlush.todo = {}
BY DEF NoFlush, Flushes

LEMMA InitKeeps == Init => IInv
<1> SUFFICES ASSUME Init PROVE IInv OBVIOUS
<1>1. TypeOK BY NoJobTyped, NoFlushTyped, BoundAssumption DEF Init, TypeOK
<1>2. JobInv BY NoJobTyped DEF Init, JobInv
<1>3. DoneWasMailed BY NoFlushTyped DEF Init, DoneWasMailed
<1> QED BY <1>1, <1>2, <1>3 DEF Init, IInv, CorpseIsSeen, FailureIsAlerted, SentWasMailed

-----------------------------------------------------------------------------
(* The run. *)

\* A step of the run that touches neither rows, mails nor processes: it goes on with the
\* same run, or it has broken it.
LEMMA JobMoves ==
    ASSUME IInv, UNCHANGED <<state, leftover, run, alert, mailed, closed, crashes>>,
           job' \in JobStates, JobInv', broken \subseteq broken', broken' \subseteq Runs,
           job'.run = job.run \/ job.run \in broken',
           flush' \in [{"job", "sweep"} -> Flushes],
           \A f \in {"job", "sweep"} : flush'[f].done \subseteq flush[f].done
    PROVE  IInv'
<1>1. TypeOK' BY DEF IInv, TypeOK
<1>2. CorpseIsSeen' BY DEF IInv, CorpseIsSeen, WillClose
<1>3. DoneWasMailed' BY DEF IInv, DoneWasMailed
<1>4. FailureIsAlerted' /\ SentWasMailed' BY DEF IInv, FailureIsAlerted, SentWasMailed
<1> QED BY <1>1, <1>2, <1>3, <1>4 DEF IInv

LEMMA OpenKeeps ==
    ASSUME IInv, NEW p \in Procs, Open(p)
    PROVE  IInv'
<1>1. PICK r \in Runs :
        /\ run[r] = "absent" /\ run' = [run EXCEPT ![r] = "running"]
        /\ job' = [NoJob EXCEPT !.phase = "working", !.proc = p, !.run = r]
    BY DEF Open
<1>2. job.phase = "none" /\ UNCHANGED <<state, leftover, alert, flush, mailed, history>> BY DEF Open
<1>3. /\ job' \in JobStates /\ job'.phase = "working" /\ job'.run = r /\ job'.verdict = "running"
      /\ ~job'.aborted
  <2>1. r \in 0..MaxRuns BY BoundAssumption DEF Runs
  <2>2. job' = [phase |-> "working", proc |-> p, run |-> r, verdict |-> "running", own |-> "none",
                aborted |-> FALSE]
      BY <1>1 DEF NoJob
  <2> QED BY <2>1, <2>2 DEF JobStates
<1>4. /\ run' \in [Runs -> {"absent", "running", "ended", "failed"}] /\ run'[r] = "running"
      /\ \A q \in Runs \ {r} : run'[q] = run[q]
    BY <1>1 DEF IInv, TypeOK
<1>5. TypeOK' BY <1>2, <1>3, <1>4 DEF IInv, TypeOK, history
<1>6. JobInv' BY <1>2, <1>3 DEF JobInv
<1>7. CorpseIsSeen'
  <2>1. \A q \in Runs : job.run # q BY <1>2 DEF IInv, JobInv, Runs
  <2> QED BY <1>2, <1>3, <1>4, <2>1 DEF IInv, CorpseIsSeen, WillClose, history
<1>8. DoneWasMailed' /\ SentWasMailed' BY <1>2 DEF IInv, DoneWasMailed, SentWasMailed
<1>9. FailureIsAlerted' BY <1>2, <1>4 DEF IInv, FailureIsAlerted, history
<1> QED BY <1>5, <1>6, <1>7, <1>8, <1>9 DEF IInv

LEMMA ReturnKeeps ==
    ASSUME IInv, Return
    PROVE  IInv'
<1>1. PICK own \in {"none", "added"}, verdict \in {"ended", "failed"} :
        /\ verdict = "failed" => own = "added"
        /\ job' = [job EXCEPT !.phase = "tidying", !.verdict = verdict, !.own = own]
    BY DEF Return
<1>2. job.phase = "working" /\ UNCHANGED <<state, leftover, run, alert, flush, mailed, history>>
    BY DEF Return
<1>3. /\ job' \in JobStates /\ job'.phase = "tidying" /\ job'.run = job.run
      /\ job'.verdict = verdict /\ job'.own = own /\ job'.aborted = job.aborted
    BY <1>1 DEF IInv, TypeOK, JobStates
<1>4. JobInv' BY <1>1, <1>2, <1>3, JobTyped DEF IInv, JobInv
<1> QED BY <1>2, <1>3, <1>4, JobMoves DEF IInv, TypeOK, history

LEMMA RaiseKeeps ==
    ASSUME IInv, Raise
    PROVE  IInv'
<1>1. PICK a \in BOOLEAN : job' = [job EXCEPT !.phase = "failing", !.aborted = a] BY DEF Raise
<1>2. job.phase = "working" /\ UNCHANGED <<state, leftover, run, alert, flush, mailed, history>>
    BY DEF Raise
<1>3. /\ job' \in JobStates /\ job'.phase = "failing" /\ job'.run = job.run
      /\ job'.verdict = job.verdict /\ job'.own = job.own
    BY <1>1 DEF IInv, TypeOK, JobStates
<1>4. JobInv' BY <1>2, <1>3 DEF IInv, JobInv
<1> QED BY <1>2, <1>3, <1>4, JobMoves DEF IInv, TypeOK, history

\* Both handlers record the failure, and its alert with it.
LEMMA HandlersKeep ==
    ASSUME IInv, Handle \/ HandleInVain
    PROVE  IInv'
<1>1. /\ job' \in JobStates /\ job'.phase = "tidying" /\ job'.run = job.run
      /\ job'.verdict = "failed" /\ job'.own = "added"
      /\ job'.aborted => job.run \in broken'
  <2>1. job \in JobStates BY DEF IInv, TypeOK
  <2>2. CASE Handle
    <3>1. job' = [job EXCEPT !.aborted = FALSE, !.own = "added", !.verdict = "failed", !.phase = "tidying"]
        BY <2>1, <2>2 DEF Handle, Recorded, JobStates
    <3> QED BY <2>1, <3>1 DEF JobStates
  <2>3. CASE HandleInVain
    <3>1. job' = [job EXCEPT !.phase = "tidying", !.verdict = "failed", !.own = "added"]
          /\ job.run \in broken'
        BY <2>3 DEF HandleInVain
    <3> QED BY <2>1, <3>1 DEF JobStates
  <2> QED BY <2>2, <2>3
<1>2. /\ job.phase = "failing" /\ UNCHANGED <<state, leftover, run, alert, flush, mailed, closed, crashes>>
      /\ broken' = broken \/ broken' = broken \cup {job.run}
    BY DEF Handle, HandleInVain, history
<1>3. job.run \in Runs BY <1>2 DEF IInv, JobInv
<1>4. broken \subseteq broken' /\ broken' \subseteq Runs BY <1>2, <1>3 DEF IInv, TypeOK
<1>5. JobInv' BY <1>1, <1>3 DEF JobInv
<1> QED BY <1>1, <1>2, <1>4, <1>5, JobMoves DEF IInv, TypeOK

LEMMA TidyKeeps ==
    ASSUME IInv, Tidy
    PROVE  IInv'
<1>1. /\ job' \in JobStates /\ job'.phase = "ending" /\ job'.run = job.run
      /\ job'.verdict = job.verdict /\ job'.own = job.own
      /\ job'.aborted = job.aborted \/ job.run \in broken'
    BY DEF Tidy, IInv, TypeOK, JobStates
<1>2. /\ job.phase = "tidying" /\ UNCHANGED <<state, leftover, run, alert, flush, mailed, closed, crashes>>
      /\ broken' = broken \/ broken' = broken \cup {job.run}
    BY DEF Tidy
<1>3. job.run \in Runs BY <1>2 DEF IInv, JobInv
<1>4. broken \subseteq broken' /\ broken' \subseteq Runs BY <1>2, <1>3 DEF IInv, TypeOK
<1>5. JobInv' BY <1>1, <1>2, <1>3, <1>4 DEF IInv, JobInv
<1> QED BY <1>1, <1>2, <1>4, <1>5, JobMoves DEF IInv, TypeOK

LEMMA SummariseKeeps ==
    ASSUME IInv, Summarise
    PROVE  IInv'
<1>1. /\ job' \in JobStates /\ job'.phase = job.phase /\ job'.run = job.run
      /\ job'.verdict = job.verdict /\ job'.own = "flushed" /\ job'.aborted = job.aborted
    BY DEF Summarise, IInv, TypeOK, JobStates
<1>2. UNCHANGED <<state, leftover, run, alert, flush, mailed, history>> BY DEF Summarise
<1>3. JobInv' BY <1>1, <1>2 DEF IInv, JobInv, history
<1> QED BY <1>1, <1>2, <1>3, JobMoves DEF IInv, TypeOK, history

LEMMA JobFlushKeeps ==
    ASSUME IInv, JobFlush
    PROVE  IInv'
<1> DEFINE seen == Unsent \cup (IF job.own = "flushed" THEN {job.run} ELSE {})
<1>1. /\ job.phase = "ending" /\ ~job.aborted /\ job' = [job EXCEPT !.phase = "mailing"]
      /\ UNCHANGED <<state, leftover, run, alert, mailed, history>>
    BY DEF JobFlush
<1>2. PICK todo \in {{}, Pending(seen)} :
         flush' = [flush EXCEPT !["job"] = [NoFlush EXCEPT !.on = TRUE, !.todo = todo]]
    BY DEF JobFlush
<1>3. todo \subseteq Runs BY <1>1, <1>2 DEF Pending, Unsent, IInv, JobInv
<1>4. /\ flush' \in [{"job", "sweep"} -> Flushes]
      /\ \A f \in {"job", "sweep"} : flush'[f].done \subseteq flush[f].done
    BY <1>2, <1>3 DEF NoFlush, Flushes, IInv, TypeOK
<1>5. /\ job' \in JobStates /\ job'.phase = "mailing" /\ job'.run = job.run
      /\ job'.verdict = job.verdict /\ job'.own = job.own /\ job'.aborted = job.aborted
    BY <1>1 DEF IInv, TypeOK, JobStates
<1>6. JobInv' BY <1>1, <1>5 DEF IInv, JobInv, history
<1> QED BY <1>1, <1>4, <1>5, <1>6, JobMoves DEF IInv, TypeOK, history

LEMMA CommitKeeps ==
    ASSUME IInv, Commit
    PROVE  IInv'
<1>1. /\ run' = [run EXCEPT ![job.run] = job.verdict]
      /\ alert' = [r \in Runs |-> IF r \in flush["job"].done THEN "sent"
                                  ELSE IF r = job.run /\ job.own # "none" THEN "unsent"
                                  ELSE alert[r]]
      /\ job' = NoJob /\ flush' = [flush EXCEPT !["job"] = NoFlush]
      /\ UNCHANGED <<state, leftover, mailed, history>>
    BY DEF Commit
<1>2. job.phase \in {"mailing", "ending"} BY DEF Commit
<1>3. job.run \in Runs /\ job.verdict # "running" /\ (job.verdict = "failed" => job.own # "none")
    BY <1>2 DEF IInv, JobInv
<1>4. /\ run' \in [Runs -> {"absent", "running", "ended", "failed"}] /\ run'[job.run] = job.verdict
      /\ \A r \in Runs \ {job.run} : run'[r] = run[r]
    BY <1>1, <1>3, JobTyped DEF IInv, TypeOK
<1>5. /\ alert' \in [Runs -> {"none", "unsent", "sent"}]
      /\ \A r \in Runs : alert[r] # "none" => alert'[r] # "none"
      /\ \A r \in Runs : alert'[r] = "sent" => alert[r] = "sent" \/ r \in flush["job"].done
      /\ job.own # "none" => alert'[job.run] # "none"
    BY <1>1, <1>3 DEF IInv, TypeOK
<1>6. flush' \in [{"job", "sweep"} -> Flushes] /\ flush'["job"].done = {} /\ flush'["sweep"] = flush["sweep"]
    BY <1>1, NoFlushTyped DEF IInv, TypeOK
<1>7. TypeOK' BY <1>1, <1>4, <1>5, <1>6, NoJobTyped DEF IInv, TypeOK, history
<1>8. JobInv' BY <1>1, NoJobTyped DEF JobInv
<1>9. CorpseIsSeen' BY <1>1, <1>3, <1>4 DEF IInv, CorpseIsSeen, WillClose, history
<1>10. DoneWasMailed' BY <1>1, <1>6 DEF IInv, DoneWasMailed
<1>11. FailureIsAlerted'
    BY <1>1, <1>3, <1>4, <1>5 DEF IInv, FailureIsAlerted, history
<1>12. SentWasMailed' BY <1>1, <1>5 DEF IInv, SentWasMailed, DoneWasMailed
<1> QED BY <1>7, <1>8, <1>9, <1>10, <1>11, <1>12 DEF IInv

LEMMA CommitFailsKeeps ==
    ASSUME IInv, CommitFails
    PROVE  IInv'
<1>1. job.run \in broken /\ job' = NoJob /\ UNCHANGED <<state, leftover, run, alert, flush, mailed, history>>
    BY DEF CommitFails, IInv, JobInv
<1>2. JobInv' BY <1>1, NoJobTyped DEF JobInv
<1> QED BY <1>1, <1>2, NoJobTyped, JobMoves DEF IInv, TypeOK, history

-----------------------------------------------------------------------------
(* The outbox. *)

LEMMA SweepStartKeeps ==
    ASSUME IInv, SweepStart
    PROVE  IInv'
<1>1. /\ flush' = [flush EXCEPT !["sweep"] = [NoFlush EXCEPT !.on = TRUE, !.todo = Pending(Unsent)]]
      /\ UNCHANGED <<state, leftover, run, alert, job, mailed, history>>
    BY DEF SweepStart
<1>2. Pending(Unsent) \subseteq Runs BY DEF Pending, Unsent
<1>3. /\ flush' \in [{"job", "sweep"} -> Flushes]
      /\ \A f \in {"job", "sweep"} : flush'[f].done \subseteq flush[f].done
    BY <1>1, <1>2 DEF NoFlush, Flushes, IInv, TypeOK
<1>4. JobInv' BY <1>1 DEF IInv, JobInv, history
<1> QED BY <1>1, <1>3, <1>4, JobMoves DEF IInv, TypeOK, history

LEMMA MailOneKeeps ==
    ASSUME IInv, NEW f \in {"job", "sweep"}, MailOne(f)
    PROVE  IInv'
<1>1. PICK r \in flush[f].todo :
        /\ \/ /\ r \in Unaddressed /\ UNCHANGED mailed
              /\ flush' = [flush EXCEPT ![f] = Done(flush[f], r)]
           \/ /\ UNCHANGED mailed
              /\ flush' = [flush EXCEPT ![f] = Skipped(flush[f], r)]
           \/ /\ Mailed(r)
              /\ flush' = [flush EXCEPT ![f] = Done(flush[f], r)]
        /\ UNCHANGED <<state, leftover, run, alert, job, history>>
    BY DEF MailOne
<1>2. flush[f] \in Flushes /\ mailed \in [Runs -> 0..2] /\ flush \in [{"job", "sweep"} -> Flushes]
    BY DEF IInv, TypeOK
<1>3. r \in Runs /\ flush[f].todo \subseteq Runs /\ flush[f].done \subseteq Runs BY <1>2 DEF Flushes
<1>4. /\ Skipped(flush[f], r) \in Flushes /\ Skipped(flush[f], r).done = flush[f].done
      /\ Done(flush[f], r) \in Flushes /\ Done(flush[f], r).done = flush[f].done \cup {r}
    BY <1>2, <1>3 DEF Skipped, Done, Flushes
<1>5. /\ flush' \in [{"job", "sweep"} -> Flushes] /\ \A g \in {"job", "sweep"} \ {f} : flush'[g] = flush[g]
      /\ flush'[f].done \in {flush[f].done, flush[f].done \cup {r}}
    BY <1>1, <1>2, <1>4
<1>6. /\ mailed' \in [Runs -> 0..2] /\ \A q \in Runs : mailed[q] > 0 => mailed'[q] > 0
      /\ r \in flush'[f].done \ Unaddressed => r \in flush[f].done \/ mailed'[r] > 0
    BY <1>1, <1>2, <1>3, <1>4 DEF Mailed
<1>7. TypeOK' BY <1>1, <1>5, <1>6 DEF IInv, TypeOK, history
<1>8. DoneWasMailed'
  <2>1. \A g \in {"job", "sweep"} : flush[g].done \subseteq Runs BY <1>2 DEF Flushes
  <2> QED BY <1>5, <1>6, <2>1 DEF IInv, DoneWasMailed
<1>9. SentWasMailed' BY <1>1, <1>6 DEF IInv, SentWasMailed
<1>10. JobInv' /\ CorpseIsSeen' /\ FailureIsAlerted'
    BY <1>1 DEF IInv, JobInv, CorpseIsSeen, WillClose, FailureIsAlerted, history
<1> QED BY <1>7, <1>8, <1>9, <1>10 DEF IInv

LEMMA SweepCommitKeeps ==
    ASSUME IInv, SweepCommit
    PROVE  IInv'
<1>1. /\ alert' = [r \in Runs |-> IF r \in flush["sweep"].done THEN "sent" ELSE alert[r]]
      /\ flush' = [flush EXCEPT !["sweep"] = NoFlush]
      /\ UNCHANGED <<state, leftover, run, job, mailed, history>>
    BY DEF SweepCommit
<1>2. /\ alert' \in [Runs -> {"none", "unsent", "sent"}]
      /\ \A r \in Runs : alert[r] # "none" => alert'[r] # "none"
      /\ \A r \in Runs : alert'[r] = "sent" => alert[r] = "sent" \/ r \in flush["sweep"].done
    BY <1>1 DEF IInv, TypeOK
<1>3. flush' \in [{"job", "sweep"} -> Flushes] /\ flush'["sweep"].done = {} /\ flush'["job"] = flush["job"]
    BY <1>1, NoFlushTyped DEF IInv, TypeOK
<1>4. TypeOK' BY <1>1, <1>2, <1>3 DEF IInv, TypeOK, history
<1>5. JobInv' /\ CorpseIsSeen' BY <1>1 DEF IInv, JobInv, CorpseIsSeen, WillClose, history
<1>6. DoneWasMailed' BY <1>1, <1>3 DEF IInv, DoneWasMailed
<1>7. FailureIsAlerted' BY <1>1, <1>2 DEF IInv, FailureIsAlerted, history
<1>8. SentWasMailed' BY <1>1, <1>2 DEF IInv, SentWasMailed, DoneWasMailed
<1> QED BY <1>4, <1>5, <1>6, <1>7, <1>8 DEF IInv

-----------------------------------------------------------------------------
(* The processes. *)

\* What a process that dies leaves as RUNNING is found by its own next start.
LEMMA CrashKeeps ==
    ASSUME IInv, NEW p \in Procs, Crash(p)
    PROVE  IInv'
<1>1. /\ state' = [state EXCEPT ![p] = "down"] /\ leftover' = [leftover EXCEPT ![p] = {}]
      /\ crashes' = crashes + 1 /\ crashes < MaxCrashes
      /\ UNCHANGED <<run, alert, mailed, closed, broken>>
    BY DEF Crash
<1>2. job' = NoJob \/ job' = job BY DEF Crash
<1>3. /\ flush' \in [{"job", "sweep"} -> Flushes]
      /\ \A f \in {"job", "sweep"} : flush'[f].done \subseteq flush[f].done
    BY NoFlushTyped DEF Crash, IInv, TypeOK
<1>4. state' \in [Procs -> {"down", "starting", "up"}] /\ leftover' \in [Procs -> SUBSET Runs]
      /\ state'[p] = "down"
      /\ \A q \in Procs \ {p} : state'[q] = state[q] /\ leftover'[q] = leftover[q]
    BY <1>1 DEF IInv, TypeOK
<1>5. TypeOK' BY <1>1, <1>2, <1>3, <1>4, NoJobTyped, BoundAssumption DEF IInv, TypeOK
<1>6. JobInv' BY <1>1, <1>2, NoJobTyped DEF IInv, JobInv
<1>7. CorpseIsSeen' BY <1>4 DEF CorpseIsSeen, WillClose
<1>8. DoneWasMailed' BY <1>1, <1>3 DEF IInv, DoneWasMailed
<1>9. FailureIsAlerted' /\ SentWasMailed' BY <1>1 DEF IInv, FailureIsAlerted, SentWasMailed
<1> QED BY <1>5, <1>6, <1>7, <1>8, <1>9 DEF IInv

LEMMA StartReadKeeps ==
    ASSUME IInv, NEW p \in Procs, StartRead(p)
    PROVE  IInv'
<1>1. /\ state' = [state EXCEPT ![p] = "starting"] /\ leftover' = [leftover EXCEPT ![p] = Running]
      /\ UNCHANGED <<run, alert, job, flush, mailed, history>>
    BY DEF StartRead
<1>2. /\ state' \in [Procs -> {"down", "starting", "up"}] /\ leftover' \in [Procs -> SUBSET Runs]
      /\ state'[p] = "starting" /\ leftover'[p] = Running
      /\ \A q \in Procs \ {p} : state'[q] = state[q] /\ leftover'[q] = leftover[q]
    BY <1>1 DEF IInv, TypeOK, Running
<1>3. TypeOK' BY <1>1, <1>2 DEF IInv, TypeOK, history
<1>4. CorpseIsSeen' BY <1>1, <1>2 DEF IInv, CorpseIsSeen, WillClose, Running, history
<1>5. JobInv' /\ DoneWasMailed' /\ FailureIsAlerted' /\ SentWasMailed'
    BY <1>1 DEF IInv, JobInv, DoneWasMailed, FailureIsAlerted, SentWasMailed, history
<1> QED BY <1>3, <1>4, <1>5 DEF IInv

\* It closes what it has found, and whoever has yet to look will not miss it.
LEMMA StartCloseKeeps ==
    ASSUME IInv, NEW p \in Procs, StartClose(p)
    PROVE  IInv'
<1>1. /\ state[p] = "starting"
      /\ state' = [state EXCEPT ![p] = "up"] /\ leftover' = [leftover EXCEPT ![p] = {}]
      /\ run' = [r \in Runs |-> IF r \in leftover[p] THEN "failed" ELSE run[r]]
      /\ closed' = closed \cup leftover[p]
      /\ UNCHANGED <<alert, job, flush, mailed, broken, crashes>>
    BY DEF StartClose
<1>2. /\ state' \in [Procs -> {"down", "starting", "up"}] /\ leftover' \in [Procs -> SUBSET Runs]
      /\ \A q \in Procs \ {p} : state'[q] = state[q] /\ leftover'[q] = leftover[q]
      /\ run' \in [Runs -> {"absent", "running", "ended", "failed"}] /\ leftover[p] \subseteq Runs
    BY <1>1 DEF IInv, TypeOK
<1>3. TypeOK' BY <1>1, <1>2 DEF IInv, TypeOK
<1>4. CorpseIsSeen'
  <2> SUFFICES ASSUME NEW r \in Runs, run'[r] = "running", job.run # r, r \notin broken
               PROVE  \E q \in Procs : WillClose(q, r)'
      BY <1>1 DEF CorpseIsSeen
  <2>1. r \notin leftover[p] /\ run[r] = "running" BY <1>1
  <2>2. PICK q \in Procs : WillClose(q, r) BY <2>1 DEF IInv, CorpseIsSeen
  <2>3. q # p BY <1>1, <2>1, <2>2 DEF WillClose
  <2> QED BY <1>2, <2>2, <2>3 DEF WillClose
<1>5. JobInv' /\ DoneWasMailed' /\ SentWasMailed' BY <1>1 DEF IInv, JobInv, DoneWasMailed, SentWasMailed
<1>6. FailureIsAlerted' BY <1>1 DEF IInv, FailureIsAlerted
<1> QED BY <1>3, <1>4, <1>5, <1>6 DEF IInv

-----------------------------------------------------------------------------
(* Every step, and the theorems. *)

LEMMA JobStepKeeps ==
    ASSUME IInv, JobStep
    PROVE  IInv'
BY ReturnKeeps, RaiseKeeps, HandlersKeep, TidyKeeps, SummariseKeeps, JobFlushKeeps, MailOneKeeps,
   CommitKeeps, CommitFailsKeeps DEF JobStep

LEMMA StepKeeps ==
    ASSUME IInv, [Next]_vars
    PROVE  IInv'
<1>1. ASSUME NEW p \in Procs, Open(p) \/ Crash(p) \/ StartRead(p) \/ StartClose(p)
      PROVE  IInv'
    BY <1>1, OpenKeeps, CrashKeeps, StartReadKeeps, StartCloseKeeps
<1>2. CASE JobStep BY <1>2, JobStepKeeps
<1>3. CASE SweepStart \/ MailOne("sweep") \/ SweepCommit
    BY <1>3, SweepStartKeeps, MailOneKeeps, SweepCommitKeeps
<1>4. CASE UNCHANGED vars
  <2>1. JobInv' BY <1>4 DEF vars, history, IInv, JobInv
  <2> QED BY <1>4, <2>1, JobMoves DEF vars, history, IInv, TypeOK
<1> QED BY <1>1, <1>2, <1>3, <1>4 DEF Next

LEMMA AlwaysIInv == Spec => []IInv
BY InitKeeps, StepKeeps, PTL DEF Spec

\* Rows, sessions and mails have their types, and a flush takes alerts of runs only.
THEOREM TypeCorrect == Spec => []TypeOK
<1>1. IInv => TypeOK BY DEF IInv
<1> QED BY <1>1, AlwaysIInv, PTL

\* Whatever fails and whoever restarts, a run on record as failed by its own doing has its
\* alert on record.  (execute_run, _recover_session)
THEOREM FailuresAreAlerted == Spec => []FailureIsAlerted
<1>1. IInv => FailureIsAlerted BY DEF IInv
<1> QED BY <1>1, AlwaysIInv, PTL

\* With any number of processes that die and come back in any order, no run is left RUNNING
\* for good: a process that has yet to start will close it, unless its own session broke.
\* (close_interrupted_runs)
THEOREM CorpsesHaveCause == Spec => []CorpseHasCause
<1>1. IInv => CorpseHasCause BY DEF IInv, CorpseIsSeen, WillClose, CorpseHasCause
<1> QED BY <1>1, AlwaysIInv, PTL

\* No alert that names a recipient counts as sent without having been mailed, although two
\* sessions may flush the queue at once.  (flush_queue)
THEOREM SentWereMailed == Spec => []SentWasMailed
<1>1. IInv => SentWasMailed BY DEF IInv
<1> QED BY <1>1, AlwaysIInv, PTL
=============================================================================
