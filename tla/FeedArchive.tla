---------------------------- MODULE FeedArchive ----------------------------
(***************************************************************************)
(* The disk of the server: the vendor's archives that a run downloads, the *)
(* report files it writes, and who deletes them.  Files change at once,    *)
(* rows when the run's session is committed: a failure between the two     *)
(* leaves one without the other.  A run tidies up when it ends, however it *)
(* ends; an hourly job prunes reports without looking at the rows.         *)
(* VendorSync says what is in the files, and when a guardrail refuses one; *)
(* here a file is good, still being uploaded ("cut"), or one whose archive *)
(* is sound and whose text cannot be read ("bad").                         *)
(***************************************************************************)
EXTENDS FiniteSets, Integers

CONSTANTS
    MaxFile,      \* bound on the vendor's files; file names in sort order
    Keep,         \* keep_feed_files_days
    KeepReports,  \* report_retention_days
    Capacity,     \* report sets the disk has room for
    Size,         \* an archive in report sets
    MaxFaults     \* bound on crashes, lost connections, failed runs and locked files

ASSUME FileAssumption == MaxFile \in Nat /\ MaxFaults \in Nat /\ Capacity \in Nat /\ Size \in Nat
ASSUME KeepAssumption == Keep \in Nat /\ KeepReports \in Nat \ {0}

VARIABLES
    server,  \* what lies under a name on the vendor's server
    disk,    \* what lies under it in the quarantine directory
    part,    \* an unfinished download lies there too
    report,  \* the report files of the run whose newest file this is
    rows,    \* the session of the run: feed_files, report_files
    db,      \* the same, committed
    job,     \* the program of the run that holds the lock
    faults   \* the faults so far

files == <<disk, part, report>>
vars == <<server, files, rows, db, job, faults>>

Files == 1..MaxFile
Contents == {"cut", "bad", "good"}

\* path: local_path IS NOT NULL; age: days since processed_at; report: the rows of the
\* reports, by feed_file_id; digests: content_sha256 of all records.
Rows == [status: [Files -> {"new", "quarantined", "duplicate", "parsed"}],
         path: SUBSET Files, age: [Files -> 0..(Keep + 1)], report: SUBSET Files,
         digests: SUBSET (Files \X Contents)]

Jobs == [phase: {"idle", "fetch", "check", "parse", "report", "record", "tidy", "end"},
         todo: SUBSET Files, fetched: SUBSET Files, read: SUBSET Files]

NoReport == -1

IdleJob == [phase |-> "idle", todo |-> {}, fetched |-> {}, read |-> {}]

OnDisk == {f \in Files : disk[f] # "none"}

TypeOK ==
    /\ server \in [Files -> Contents \cup {"absent", "gone"}]
    /\ disk \in [Files -> Contents \cup {"none"}]
    /\ part \subseteq Files
    /\ report \in [Files -> NoReport..(KeepReports + 1)]
    /\ rows \in Rows /\ db \in Rows
    /\ job \in Jobs /\ job.fetched \subseteq OnDisk
    /\ faults \in 0..MaxFaults

NoRows == [status |-> [f \in Files |-> "new"], path |-> {}, age |-> [f \in Files |-> 0],
           report |-> {}, digests |-> {}]

Init ==
    /\ server = [f \in Files |-> "absent"]
    /\ disk = [f \in Files |-> "none"]
    /\ part = {}
    /\ report = [f \in Files |-> NoReport]
    /\ rows = NoRows /\ db = NoRows
    /\ job = IdleJob
    /\ faults = 0

Reports == {f \in Files : report[f] # NoReport}

\* What archives take up.
Space(some) == Cardinality(some \X (1..Size)) + Cardinality(part \X (1..Size))

HasRoom(size) == Space(OnDisk) + Cardinality(Reports) + size <= Capacity

Fault == faults < MaxFaults /\ faults' = faults + 1

-----------------------------------------------------------------------------
(* The vendor, and time. *)

Publish(f) ==
    /\ server[f] = "absent"
    /\ \E c \in Contents : server' = [server EXCEPT ![f] = c]
    /\ UNCHANGED <<files, rows, db, job, faults>>

\* The upload ends, or the file is replaced by a good one.
Mend(f) ==
    /\ server[f] \in {"cut", "bad"}
    /\ server' = [server EXCEPT ![f] = "good"]
    /\ UNCHANGED <<files, rows, db, job, faults>>

\* It is taken down, or its name is no longer today's.
Expire(f) ==
    /\ server[f] \in Contents
    /\ server' = [server EXCEPT ![f] = "gone"]
    /\ UNCHANGED <<files, rows, db, job, faults>>

Older(age, keep) == IF age <= keep THEN age + 1 ELSE age

Aged(r) == [r EXCEPT !.age = [f \in Files |->
               IF r.status[f] = "parsed" THEN Older(r.age[f], Keep) ELSE r.age[f]]]

\* A run ends on the day it starts.
Day ==
    /\ job.phase = "idle"
    /\ rows' = Aged(rows) /\ db' = Aged(db)
    /\ report' = [f \in Files |->
                     IF report[f] = NoReport THEN NoReport ELSE Older(report[f], KeepReports)]
    /\ UNCHANGED <<server, disk, part, job, faults>>

-----------------------------------------------------------------------------
(* A run: fetching. *)

\* A mutant of Handled: only duplicates are passed over.
HandledDuplicates(f) == rows.status[f] = "duplicate"

\* The names the next run passes over.
Handled(f) == rows.status[f] \in {"parsed", "duplicate"}

RunStart ==
    /\ job.phase = "idle"
    /\ job' = [IdleJob EXCEPT !.phase = "fetch",
                              !.todo = {f \in Files : server[f] \in Contents /\ ~Handled(f)}]
    /\ UNCHANGED <<server, files, rows, db, faults>>

Oldest(some) == CHOOSE f \in some : \A g \in some : f <= g
IsNext(some, f) == some # {} /\ f = Oldest(some)

Settled(f, status) == [rows EXCEPT !.status[f] = status, !.path = @ \cup {f}]

\* The bytes are written beside the name they will have.
DownloadStart(f) ==
    /\ job.phase = "fetch" /\ IsNext(job.todo, f) /\ f \notin part
    /\ server[f] \in Contents /\ HasRoom(Size)
    /\ part' = part \cup {f}
    /\ UNCHANGED <<server, disk, report, rows, db, job, faults>>

\* os.replace: in one step, and over whatever lay there.
DownloadEnd(f) ==
    /\ job.phase = "fetch" /\ IsNext(job.todo, f) /\ f \in part
    /\ server[f] \in Contents
    /\ part' = part \ {f}
    /\ disk' = [disk EXCEPT ![f] = server[f]]
    /\ job' = [job EXCEPT !.phase = "check"]
    /\ UNCHANGED <<server, report, rows, db, faults>>

\* The connection is lost, or the disk is full: nothing more is fetched.
DownloadBreaks(f) ==
    /\ job.phase = "fetch" /\ IsNext(job.todo, f)
    /\ \/ Fault
       \/ (server[f] = "gone" \/ (f \notin part /\ ~HasRoom(Size))) /\ UNCHANGED faults
    /\ part' = part \ {f}
    /\ disk' = [disk EXCEPT ![f] = "none"]
    /\ rows' = Settled(f, "quarantined")
    /\ job' = [job EXCEPT !.todo = {}]
    /\ UNCHANGED <<server, report, db>>

\* A mutant of Taken: the loop goes on below the branch that deletes the file.
TakenAll(f, refused) == job.fetched \cup {f}

\* The files the second phase will read.
Taken(f, refused) == IF refused THEN job.fetched ELSE job.fetched \cup {f}

\* The digest is recorded before the archive is verified.
Check(f) ==
    /\ job.phase = "check" /\ f = Oldest(job.todo)
    /\ LET bytes == <<f, disk[f]>>
           refused == bytes \in rows.digests \/ disk[f] = "cut"
           outcome == IF bytes \in rows.digests THEN "duplicate"
                      ELSE IF disk[f] = "cut" THEN "quarantined" ELSE rows.status[f]
       IN  /\ rows' = [Settled(f, outcome) EXCEPT !.digests = @ \cup {bytes}]
           /\ disk' = [disk EXCEPT ![f] = IF refused THEN "none" ELSE @]
           /\ job' = [job EXCEPT !.phase = "fetch", !.todo = @ \ {f},
                                 !.fetched = Taken(f, refused)]
    /\ UNCHANGED <<server, part, report, db, faults>>

HangUp ==
    /\ job.phase = "fetch" /\ job.todo = {}
    /\ job' = [job EXCEPT !.phase = "parse"]
    /\ UNCHANGED <<server, files, rows, db, faults>>

-----------------------------------------------------------------------------
(* A run: reading, reporting. *)

Parse(f) ==
    /\ job.phase = "parse" /\ IsNext(job.fetched, f)
    /\ IF disk[f] = "good"
       THEN /\ rows' = [rows EXCEPT !.status[f] = "parsed", !.age[f] = 0]
            /\ job' = [job EXCEPT !.fetched = @ \ {f}, !.read = @ \cup {f}]
       ELSE /\ rows' = [rows EXCEPT !.status[f] = "quarantined"]
            /\ job' = [job EXCEPT !.fetched = @ \ {f}]
    /\ UNCHANGED <<server, files, db, faults>>

\* The checkpoint after the vendor's data; without a file that was read there is
\* nothing to report.
Stored ==
    /\ job.phase = "parse" /\ job.fetched = {}
    /\ db' = rows
    /\ job' = [job EXCEPT !.phase = IF job.read = {} THEN "tidy" ELSE "report"]
    /\ UNCHANGED <<server, files, rows, faults>>

Newest == CHOOSE f \in job.read : \A g \in job.read : g <= f

\* _write_reports, which a full disk ends.
WriteReports ==
    /\ job.phase = "report"
    /\ IF HasRoom(1)
       THEN /\ report' = [report EXCEPT ![Newest] = 0]
            /\ job' = [job EXCEPT !.phase = "record"]
       ELSE job' = [job EXCEPT !.phase = "tidy"] /\ UNCHANGED report
    /\ UNCHANGED <<server, disk, part, rows, db, faults>>

RecordReports ==
    /\ job.phase = "record"
    /\ rows' = [rows EXCEPT !.report = @ \cup {Newest}]
    /\ db' = rows'
    /\ job' = [job EXCEPT !.phase = "tidy"]
    /\ UNCHANGED <<server, files, faults>>

-----------------------------------------------------------------------------
(* The end of a run. *)

\* Files of rows that say when they were processed, longer ago than they are kept.
Expired == {f \in rows.path : rows.status[f] = "parsed" /\ rows.age[f] > Keep}

\* A mutant of Cleared: the row forgets the file whether or not it could be deleted.
ClearedAll(locked) == rows.path \ Expired

\* local_path of a file that is gone, or was gone already; one that cannot be deleted
\* now stays for the next run.
Cleared(locked) == rows.path \ (Expired \ locked)

Old(f) == report[f] > KeepReports

\* A mutant of Tidies: the runs that have nothing to do return before.
TidiesAfterFiles == job.read # {}

\* In a finally clause.
Tidies == TRUE

Housekeeping ==
    /\ job.phase = "tidy"
    /\ job' = [job EXCEPT !.phase = "end"]
    /\ IF Tidies
       THEN \E locked \in SUBSET (Expired \cap OnDisk) :
              /\ IF locked = {} THEN UNCHANGED faults ELSE Fault
              /\ disk' = [f \in Files |-> IF f \in Expired \ locked THEN "none" ELSE disk[f]]
              /\ rows' = [rows EXCEPT !.path = Cleared(locked)]
              /\ report' = [f \in Files |-> IF f \in Reports \cap rows.report /\ Old(f)
                                            THEN NoReport ELSE report[f]]
       ELSE UNCHANGED <<disk, rows, report, faults>>
    /\ UNCHANGED <<server, part, db>>

\* The commit of the run's caller.
Commit ==
    /\ job.phase = "end"
    /\ db' = rows
    /\ job' = IdleJob
    /\ UNCHANGED <<server, files, rows, faults>>

\* A mutant of RolledBack: the digests known to the process outlive the transaction.
RolledBackButDigests == [db EXCEPT !.digests = rows.digests]

RolledBack == db

\* An exception that no handler of a single file takes: the session is rolled back, and
\* the run tidies up all the same.  download removes its unfinished file.
Fail ==
    /\ job.phase \notin {"idle", "tidy", "end"}
    /\ Fault
    /\ part' = IF job.phase = "fetch" /\ job.todo # {} THEN part \ {Oldest(job.todo)} ELSE part
    /\ rows' = RolledBack
    /\ job' = [IdleJob EXCEPT !.phase = "tidy"]
    /\ UNCHANGED <<server, disk, report, db>>

\* The process dies, or the last commit fails.
Crash ==
    /\ job.phase # "idle"
    /\ Fault
    /\ rows' = RolledBack
    /\ job' = IdleJob
    /\ UNCHANGED <<server, files, db>>

-----------------------------------------------------------------------------
\* A mutant of Prunable: the reports the database knows.
PrunableRecorded == {f \in Reports \cap db.report : Old(f)}

Prunable == {f \in Reports : Old(f)}

\* job_housekeeping, by the files' own age and without the lock.
Prune ==
    /\ report' = [f \in Files |-> IF f \in Prunable THEN NoReport ELSE report[f]]
    /\ UNCHANGED <<server, disk, part, rows, db, job, faults>>

RunStep ==
    \/ \E f \in Files : DownloadStart(f) \/ DownloadEnd(f) \/ DownloadBreaks(f) \/ Check(f) \/ Parse(f)
    \/ HangUp \/ Stored \/ WriteReports \/ RecordReports \/ Housekeeping \/ Commit

Next ==
    \/ \E f \in Files : Publish(f) \/ Mend(f) \/ Expire(f)
    \/ Day \/ RunStart \/ RunStep \/ Fail \/ Crash \/ Prune

Spec == Init /\ [][Next]_vars

\* Days end between runs, a run goes on until it ends, the scheduler starts runs again and again,
\* each finds the lock free now and then, and prunes every hour.
Fairness == SF_vars(Day) /\ WF_vars(RunStep) /\ SF_vars(RunStart) /\ WF_vars(Prune)

FairSpec == Spec /\ Fairness

-----------------------------------------------------------------------------
(* Properties. *)

\* An archive that was read stays to be looked at, whole and under its name, for the days
\* it is kept, whatever later runs fetch, refuse or lose.  (_ingest, _housekeeping)
ParsedIsKept == \A f \in Files :
    db.status[f] = "parsed" /\ db.age[f] <= Keep => disk[f] = "good"

\* The digest of a good file is on record only with the rows that were read from it: no
\* failure leaves a file known and never read.  (_ingest, content_sha256)
KnownWasRead == \A f \in Files : <<f, "good">> \in db.digests => db.status[f] = "parsed"

\* An archive that was read is deleted in the end, although deleting it may fail, and the
\* session that deleted it may.  (_housekeeping)
ExpiredIsDeleted == \A f \in Files :
    db.status[f] = "parsed" ~> disk[f] = "none" /\ f \notin db.path

\* A report is deleted in the end, even one no row tells of.  (prune_old_reports)
OldReportGoes == \A f \in Files : report[f] # NoReport ~> report[f] = NoReport

\* What no one ever deletes: rejected archives, and what an interrupted run left.
Stuck == {f \in OnDisk : db.status[f] # "parsed"}

\* A full disk clears itself: a good file that waits on the server is read at last,
\* unless the vendor takes it down first, its bytes have come before, or the disk is full
\* of files nobody deletes.  (_housekeeping, in the finally clause of execute_run)
FullDiskClears == \A f \in Files :
    server[f] = "good" ~> Handled(f) \/ server[f] = "gone" \/ Space(Stuck) + Size > Capacity
=============================================================================
