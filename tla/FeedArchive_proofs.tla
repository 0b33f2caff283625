------------------------- MODULE FeedArchive_proofs -------------------------
(***************************************************************************)
(* What rows and archives keep to each other, for any number of files, any *)
(* disk, any retention and any number of faults.                           *)
(***************************************************************************)
EXTENDS FeedArchive, WellFoundedInduction, TLAPS

-----------------------------------------------------------------------------
(* The inductive invariant. *)

\* What a run has yet to fetch has not been read, and what it has fetched it has yet to
\* read.
Pending ==
    /\ \A f \in job.todo : rows.status[f] # "parsed" /\ f \notin job.fetched
    /\ \A f \in job.fetched : rows.status[f] # "parsed"

\* Rows r know a good file only by having it read, or about to be.
Known(r, waiting) == \A f \in Files : <<f, "good">> \in r.digests =>
    r.status[f] = "parsed" \/ (f \in waiting /\ disk[f] = "good")

Kept(r) == \A f \in Files : r.status[f] = "parsed" /\ r.age[f] <= Keep => disk[f] = "good"

\* What is committed as read, the session has as read, and as old.
Agree == \A f \in Files : db.status[f] = "parsed" =>
    rows.status[f] = "parsed" /\ rows.age[f] = db.age[f]

PhaseInv ==
    /\ job.phase \notin {"fetch", "check"} => job.todo = {}
    /\ job.phase = "check" => job.todo # {} /\ disk[Oldest(job.todo)] # "none"
    /\ job.phase \notin {"fetch", "check", "parse"} => job.fetched = {}
    /\ job.phase \in {"report", "record"} => job.read # {}
    /\ job.phase = "idle" => rows = db

IInv ==
    /\ TypeOK /\ Pending /\ Agree /\ PhaseInv
    /\ Known(rows, job.fetched) /\ Known(db, {})
    /\ Kept(rows) /\ Kept(db)
-----------------------------------------------------------------------------
(* Files and rows. *)

LEMMA OldestIsIn ==
    ASSUME NEW some \in SUBSET Files, some # {}
    PROVE  Oldest(some) \in some
<1>1. IsWellFoundedOn(OpToRel(<, Nat), Nat) BY NatLessThanWellFounded
<1>2. some \in SUBSET Nat BY FileAssumption DEF Files
<1>3. PICK m \in some : \A n \in some : <<n, m>> \notin OpToRel(<, Nat) BY <1>1, <1>2, WFMin
<1>4. \A n \in some : m <= n
  <2> TAKE n \in some
  <2>1. ~(n < m) BY <1>2, <1>3 DEF OpToRel
  <2> QED BY <1>2, <2>1
<1> QED BY <1>3, <1>4 DEF Oldest

\* A maximum is the minimum of the distances from MaxFile.
LEMMA GreatestExists ==
    ASSUME NEW some \in SUBSET Files, some # {}
    PROVE  \E f \in some : \A g \in some : g <= f
<1> DEFINE short == {n \in Nat : \E f \in some : n = MaxFile - f}
<1>1. IsWellFoundedOn(OpToRel(<, Nat), Nat) BY NatLessThanWellFounded
<1>2. \A f \in some : f \in Nat /\ MaxFile - f \in short BY FileAssumption DEF Files
<1>3. short \subseteq Nat /\ short # {} BY <1>2
<1>4. PICK m \in short : \A n \in short : <<n, m>> \notin OpToRel(<, Nat) BY <1>1, <1>3, WFMin
<1>5. PICK f \in some : m = MaxFile - f BY <1>4
<1>6. ASSUME NEW g \in some PROVE g <= f
  <2>1. MaxFile - g \in Nat /\ m \in Nat BY <1>2, <1>3
  <2>2. ~(MaxFile - g < m) BY <1>2, <1>4, <2>1 DEF OpToRel
  <2> HIDE DEF short
  <2> QED BY <1>2, <1>5, <2>1, <2>2, FileAssumption
<1> QED BY <1>6

LEMMA NewestIsRead ==
    ASSUME TypeOK, job.read # {}
    PROVE  Newest \in Files
<1>1. job.read \subseteq Files BY DEF TypeOK, Jobs
<1>2. \E f \in job.read : \A g \in job.read : g <= f BY <1>1, GreatestExists
<1> QED BY <1>1, <1>2 DEF Newest

LEMMA SettledTyped ==
    ASSUME rows \in Rows, NEW f \in Files,
           NEW status \in {"new", "quarantined", "duplicate", "parsed"}
    PROVE  /\ Settled(f, status) \in Rows
           /\ Settled(f, status).status = [rows.status EXCEPT ![f] = status]
           /\ Settled(f, status).age = rows.age /\ Settled(f, status).digests = rows.digests
<1>1. /\ rows.status \in [Files -> {"new", "quarantined", "duplicate", "parsed"}]
      /\ rows.path \subseteq Files
    BY DEF Rows
<1>2. /\ [rows.status EXCEPT ![f] = status] \in [Files -> {"new", "quarantined", "duplicate", "parsed"}]
      /\ rows.path \cup {f} \subseteq Files
    BY <1>1
<1>3. Settled(f, status) = [rows EXCEPT !.status = [rows.status EXCEPT ![f] = status],
                                        !.path = rows.path \cup {f}]
    BY DEF Settled, Rows
<1> QED BY <1>2, <1>3 DEF Rows

LEMMA RowsTyped ==
    ASSUME NEW r \in Rows
    PROVE  /\ r.status \in [Files -> {"new", "quarantined", "duplicate", "parsed"}]
           /\ r.path \subseteq Files /\ r.age \in [Files -> 0..(Keep + 1)]
           /\ r.report \subseteq Files /\ r.digests \subseteq Files \X Contents
BY DEF Rows

LEMMA JobTyped ==
    ASSUME TypeOK
    PROVE  /\ job.phase \in {"idle", "fetch", "check", "parse", "report", "record", "tidy", "end"}
           /\ job.todo \subseteq Files /\ job.fetched \subseteq Files /\ job.read \subseteq Files
           /\ job.fetched \subseteq OnDisk
BY DEF TypeOK, Jobs

LEMMA InitKeeps == Init => IInv
<1> SUFFICES ASSUME Init PROVE IInv OBVIOUS
<1>1. NoRows \in Rows /\ NoRows.digests = {} /\ \A f \in Files : NoRows.status[f] = "new"
    BY KeepAssumption DEF NoRows, Rows
<1>2. IdleJob \in Jobs /\ IdleJob.todo = {} /\ IdleJob.fetched = {} /\ IdleJob.phase = "idle"
    BY DEF IdleJob, Jobs
<1>3. TypeOK BY <1>1, <1>2, KeepAssumption, FileAssumption DEF Init, TypeOK, Contents, NoReport
<1> QED BY <1>1, <1>2, <1>3 DEF Init, IInv, Pending, Agree, PhaseInv, Known, Kept

\* What the invariant says beyond types, of a state like this one as to files, rows and job.
LEMMA NothingChanged ==
    ASSUME IInv, TypeOK', UNCHANGED <<disk, rows, db, job>>
    PROVE  IInv'
BY DEF IInv, Pending, Agree, PhaseInv, Known, Kept

LEMMA OutsideKeeps ==
    ASSUME IInv, \/ \E f \in Files : Publish(f) \/ Mend(f) \/ Expire(f)
                 \/ Prune
    PROVE  IInv'
<1>0. server \in [Files -> Contents \cup {"absent", "gone"}]
      /\ report \in [Files -> NoReport..(KeepReports + 1)]
    BY DEF IInv, TypeOK
<1>1. CASE \E f \in Files : Publish(f) \/ Mend(f) \/ Expire(f)
  <2>1. server' \in [Files -> Contents \cup {"absent", "gone"}]
      BY <1>0, <1>1 DEF Publish, Mend, Expire, Contents
  <2>2. UNCHANGED <<files, rows, db, job>> /\ (faults' = faults)
      BY <1>1 DEF Publish, Mend, Expire
  <2>3. TypeOK' BY <2>1, <2>2 DEF IInv, TypeOK, files, OnDisk
  <2> QED BY <2>2, <2>3, NothingChanged DEF files
<1>2. CASE Prune
  <2>1. report' \in [Files -> NoReport..(KeepReports + 1)]
      BY <1>0, <1>2, KeepAssumption DEF Prune, NoReport
  <2>2. TypeOK' BY <1>2, <2>1 DEF IInv, TypeOK, Prune, OnDisk
  <2> QED BY <1>2, <2>2, NothingChanged DEF Prune
<1> QED BY <1>1, <1>2

LEMMA AgedTyped ==
    ASSUME NEW r \in Rows
    PROVE  /\ Aged(r) \in Rows /\ Aged(r).status = r.status /\ Aged(r).digests = r.digests
           /\ \A f \in Files : Aged(r).age[f] <= Keep => r.age[f] <= Keep
<1> DEFINE age == [f \in Files |-> IF r.status[f] = "parsed" THEN Older(r.age[f], Keep) ELSE r.age[f]]
<1>1. r.age \in [Files -> 0..(Keep + 1)] BY RowsTyped
<1>2. age \in [Files -> 0..(Keep + 1)] /\ \A f \in Files : age[f] <= Keep => r.age[f] <= Keep
    BY <1>1, KeepAssumption DEF Older
<1>3. Aged(r) = [r EXCEPT !.age = age] BY DEF Aged
<1> HIDE DEF age
<1> QED BY <1>2, <1>3 DEF Rows

LEMMA DayKeeps ==
    ASSUME IInv, Day
    PROVE  IInv'
<1>1. job.phase = "idle" /\ rows = db /\ rows' = Aged(rows) /\ db' = Aged(rows)
    BY DEF Day, IInv, PhaseInv
<1>2. /\ rows' \in Rows /\ rows'.status = rows.status /\ rows'.digests = rows.digests
      /\ \A f \in Files : rows'.age[f] <= Keep => rows.age[f] <= Keep
    BY <1>1, AgedTyped DEF IInv, TypeOK
<1>3. UNCHANGED <<server, disk, part, job, faults>> BY DEF Day
<1>4. report' \in [Files -> NoReport..(KeepReports + 1)]
  <2>1. report \in [Files -> NoReport..(KeepReports + 1)] BY DEF IInv, TypeOK
  <2> QED BY <2>1, KeepAssumption DEF Day, Older, NoReport
<1>5. TypeOK' BY <1>1, <1>2, <1>3, <1>4 DEF IInv, TypeOK, OnDisk
<1>6. Pending' /\ PhaseInv' /\ Agree' BY <1>1, <1>2, <1>3 DEF IInv, Pending, PhaseInv, Agree
<1>7. Known(rows, job.fetched)' /\ Known(db, {})' BY <1>1, <1>2, <1>3 DEF IInv, Known
<1>8. Kept(rows)' /\ Kept(db)' BY <1>1, <1>2, <1>3 DEF IInv, Kept
<1> QED BY <1>5, <1>6, <1>7, <1>8 DEF IInv

LEMMA RunStartKeeps ==
    ASSUME IInv, RunStart
    PROVE  IInv'
<1> DEFINE todo == {f \in Files : server[f] \in Contents /\ ~Handled(f)}
<1>1. /\ job' = [IdleJob EXCEPT !.phase = "fetch", !.todo = todo]
      /\ UNCHANGED <<server, files, rows, db, faults>>
    BY DEF RunStart
<1>2. todo \subseteq Files /\ \A f \in todo : rows.status[f] # "parsed" BY DEF Handled
<1> HIDE DEF todo
<1>3. /\ job'.phase = "fetch" /\ job'.todo = todo /\ job'.fetched = {} /\ job'.read = {}
      /\ job' \in Jobs
    BY <1>1, <1>2 DEF IdleJob, Jobs
<1>4. job.phase = "idle" /\ job.fetched = {} BY DEF RunStart, IInv, PhaseInv
<1>5. TypeOK' BY <1>1, <1>3 DEF IInv, TypeOK, files, OnDisk
<1>6. Pending' /\ PhaseInv' /\ Agree' BY <1>1, <1>2, <1>3 DEF IInv, Pending, PhaseInv, Agree, files
<1>7. Known(rows, job.fetched)' /\ Known(db, {})' BY <1>1, <1>3, <1>4 DEF IInv, Known, files
<1>8. Kept(rows)' /\ Kept(db)' BY <1>1 DEF IInv, Kept, files
<1> QED BY <1>5, <1>6, <1>7, <1>8 DEF IInv

\* The file a run is about to fetch is one it has neither read nor fetched.
LEMMA NextIsPending ==
    ASSUME IInv, NEW f \in Files, job.todo # {}, f = Oldest(job.todo)
    PROVE  /\ f \in job.todo /\ f \notin job.fetched
           /\ rows.status[f] # "parsed" /\ db.status[f] # "parsed"
<1>1. f \in job.todo BY OldestIsIn, JobTyped DEF IInv
<1> QED BY <1>1 DEF IInv, Pending, Agree

LEMMA DownloadStartKeeps ==
    ASSUME IInv, NEW f \in Files, DownloadStart(f)
    PROVE  IInv'
<1>1. TypeOK' BY DEF DownloadStart, IInv, TypeOK, OnDisk
<1> QED BY <1>1, NothingChanged DEF DownloadStart

LEMMA DownloadEndKeeps ==
    ASSUME IInv, NEW f \in Files, DownloadEnd(f)
    PROVE  IInv'
<1>1. /\ job.phase = "fetch" /\ job.todo # {} /\ f = Oldest(job.todo)
      /\ server[f] \in Contents
      /\ part' = part \ {f} /\ disk' = [disk EXCEPT ![f] = server[f]]
      /\ job' = [job EXCEPT !.phase = "check"]
      /\ UNCHANGED <<server, report, rows, db, faults>>
    BY DEF DownloadEnd, IsNext
<1>2. f \in job.todo /\ f \notin job.fetched /\ rows.status[f] # "parsed" /\ db.status[f] # "parsed"
    BY <1>1, NextIsPending
<1>3. /\ disk' \in [Files -> Contents \cup {"none"}]
      /\ \A g \in Files \ {f} : disk'[g] = disk[g]
    BY <1>1 DEF IInv, TypeOK
<1>4. /\ job' \in Jobs /\ job'.phase = "check" /\ job'.todo = job.todo
      /\ job'.fetched = job.fetched /\ job'.read = job.read
    BY <1>1 DEF IInv, TypeOK, Jobs
<1>5. job'.fetched \subseteq OnDisk'
    BY <1>2, <1>3, <1>4, JobTyped DEF IInv, OnDisk
<1>6. TypeOK' BY <1>1, <1>3, <1>4, <1>5 DEF IInv, TypeOK
<1>7. Pending' /\ Agree' BY <1>1, <1>4 DEF IInv, Pending, Agree
<1>8. PhaseInv'
  <2>1. disk'[f] \in Contents BY <1>1 DEF IInv, TypeOK
  <2>2. disk'[Oldest(job'.todo)] # "none" BY <1>1, <1>4, <2>1 DEF Contents
  <2> QED BY <1>1, <1>4, <2>2 DEF PhaseInv
<1>10. Known(rows, job.fetched)' /\ Known(db, {})' BY <1>1, <1>2, <1>3, <1>4 DEF IInv, Known
<1>9. Kept(rows)' /\ Kept(db)' BY <1>1, <1>2, <1>3 DEF IInv, Kept
<1> QED BY <1>6, <1>7, <1>8, <1>9, <1>10 DEF IInv

LEMMA DownloadBreaksKeeps ==
    ASSUME IInv, NEW f \in Files, DownloadBreaks(f)
    PROVE  IInv'
<1>1. /\ job.phase = "fetch" /\ job.todo # {} /\ f = Oldest(job.todo)
      /\ part' = part \ {f} /\ disk' = [disk EXCEPT ![f] = "none"]
      /\ rows' = Settled(f, "quarantined")
      /\ job' = [job EXCEPT !.todo = {}]
      /\ UNCHANGED <<server, report, db>>
    BY DEF DownloadBreaks, IsNext
<1>2. f \in job.todo /\ f \notin job.fetched /\ rows.status[f] # "parsed" /\ db.status[f] # "parsed"
    BY <1>1, NextIsPending
<1>3. /\ disk' \in [Files -> Contents \cup {"none"}]
      /\ \A g \in Files \ {f} : disk'[g] = disk[g]
    BY <1>1 DEF IInv, TypeOK
<1>4. /\ job' \in Jobs /\ job'.phase = "fetch" /\ job'.todo = {}
      /\ job'.fetched = job.fetched /\ job'.read = job.read
    BY <1>1 DEF IInv, TypeOK, Jobs
<1>5. /\ rows' \in Rows /\ rows'.age = rows.age /\ rows'.digests = rows.digests
      /\ rows'.status[f] = "quarantined"
      /\ \A g \in Files \ {f} : rows'.status[g] = rows.status[g]
  <2>1. rows \in Rows BY DEF IInv, TypeOK
  <2>2. rows.status \in [Files -> {"new", "quarantined", "duplicate", "parsed"}] BY <2>1, RowsTyped
  <2>3. /\ rows' \in Rows /\ rows'.age = rows.age /\ rows'.digests = rows.digests
        /\ rows'.status = [rows.status EXCEPT ![f] = "quarantined"]
      BY <1>1, <2>1, SettledTyped
  <2> QED BY <2>2, <2>3
<1>6. job'.fetched \subseteq OnDisk'
    BY <1>2, <1>3, <1>4, JobTyped DEF IInv, OnDisk
<1>7. faults' \in 0..MaxFaults
    BY FileAssumption DEF DownloadBreaks, Fault, IInv, TypeOK
<1>8. TypeOK' BY <1>1, <1>3, <1>4, <1>5, <1>6, <1>7 DEF IInv, TypeOK
<1>9. Pending' /\ PhaseInv' /\ Agree'
    BY <1>1, <1>2, <1>4, <1>5, JobTyped DEF IInv, Pending, PhaseInv, Agree
<1>10. Known(rows, job.fetched)' /\ Known(db, {})'
    BY <1>1, <1>2, <1>3, <1>4, <1>5 DEF IInv, Known
<1>11. Kept(rows)' /\ Kept(db)' BY <1>1, <1>2, <1>3, <1>5 DEF IInv, Kept
<1> QED BY <1>8, <1>9, <1>10, <1>11 DEF IInv

LEMMA CheckKeeps ==
    ASSUME IInv, NEW f \in Files, Check(f)
    PROVE  IInv'
<1> DEFINE bytes == <<f, disk[f]>>
           refused == bytes \in rows.digests \/ disk[f] = "cut"
           outcome == IF bytes \in rows.digests THEN "duplicate"
                      ELSE IF disk[f] = "cut" THEN "quarantined" ELSE rows.status[f]
           settled == Settled(f, outcome)
<1>1. /\ job.phase = "check" /\ f = Oldest(job.todo)
      /\ rows' = [settled EXCEPT !.digests = @ \cup {bytes}]
      /\ disk' = [disk EXCEPT ![f] = IF refused THEN "none" ELSE @]
      /\ job' = [job EXCEPT !.phase = "fetch", !.todo = @ \ {f}, !.fetched = Taken(f, refused)]
      /\ UNCHANGED <<server, part, report, db, faults>>
    BY DEF Check
<1>2. f \in job.todo /\ f \notin job.fetched /\ rows.status[f] # "parsed" /\ db.status[f] # "parsed"
    BY <1>1, NextIsPending DEF IInv, PhaseInv
<1>3. disk \in [Files -> Contents \cup {"none"}] /\ rows \in Rows /\ job \in Jobs
    BY DEF IInv, TypeOK
<1>4. disk[f] \in Contents BY <1>1, <1>3 DEF IInv, PhaseInv
<1>5. rows.status[f] \in {"new", "quarantined", "duplicate", "parsed"} /\ rows.digests \subseteq Files \X Contents
    BY <1>3, RowsTyped
<1>6. outcome \in {"new", "quarantined", "duplicate", "parsed"} /\ outcome # "parsed"
    BY <1>2, <1>5
<1>7. bytes \in Files \X Contents BY <1>4
<1> HIDE DEF outcome, refused, bytes
<1>8. /\ settled \in Rows /\ settled.age = rows.age /\ settled.digests = rows.digests
      /\ settled.status[f] = outcome
      /\ \A g \in Files \ {f} : settled.status[g] = rows.status[g]
  <2>1. rows.status \in [Files -> {"new", "quarantined", "duplicate", "parsed"}] BY <1>3, RowsTyped
  <2>2. /\ settled \in Rows /\ settled.age = rows.age /\ settled.digests = rows.digests
        /\ settled.status = [rows.status EXCEPT ![f] = outcome]
      BY <1>3, <1>6, SettledTyped
  <2> HIDE DEF settled
  <2> QED BY <2>1, <2>2
<1> HIDE DEF settled
<1>9. /\ rows' \in Rows /\ rows'.age = rows.age /\ rows'.digests = rows.digests \cup {bytes}
      /\ rows'.status[f] = outcome
      /\ \A g \in Files \ {f} : rows'.status[g] = rows.status[g]
    BY <1>1, <1>5, <1>7, <1>8 DEF Rows
<1>10. /\ job' \in Jobs /\ job'.phase = "fetch" /\ job'.todo = job.todo \ {f}
       /\ job'.fetched = (IF refused THEN job.fetched ELSE job.fetched \cup {f})
    BY <1>1, <1>3 DEF Jobs, Taken
<1>11. /\ disk' \in [Files -> Contents \cup {"none"}]
       /\ disk'[f] = (IF refused THEN "none" ELSE disk[f])
       /\ \A g \in Files \ {f} : disk'[g] = disk[g]
    BY <1>1, <1>3
<1>12. job'.fetched \subseteq OnDisk'
    BY <1>2, <1>4, <1>10, <1>11, JobTyped DEF IInv, OnDisk, Contents
<1>13. TypeOK' BY <1>1, <1>9, <1>10, <1>11, <1>12 DEF IInv, TypeOK
<1>14. Pending'
    BY <1>2, <1>6, <1>9, <1>10, JobTyped DEF IInv, Pending
<1>15. PhaseInv' /\ Agree'
    BY <1>1, <1>2, <1>9, <1>10 DEF IInv, PhaseInv, Agree
<1>16. Known(rows, job.fetched)'
  <2> SUFFICES ASSUME NEW g \in Files, <<g, "good">> \in rows'.digests
               PROVE  rows'.status[g] = "parsed" \/ (g \in job'.fetched /\ disk'[g] = "good")
      BY DEF Known
  <2>1. CASE g # f
    <3>1. <<g, "good">> \in rows.digests BY <1>9, <2>1 DEF bytes
    <3>2. rows.status[g] = "parsed" \/ (g \in job.fetched /\ disk[g] = "good")
        BY <3>1 DEF IInv, Known
    <3> QED BY <1>9, <1>10, <1>11, <2>1, <3>2
  <2>2. CASE g = f
    <3>1. <<f, "good">> \notin rows.digests BY <1>2 DEF IInv, Known
    <3>2. bytes = <<f, "good">> BY <1>9, <2>2, <3>1
    <3>3. disk[f] = "good" BY <3>2 DEF bytes
    <3>4. ~refused BY <3>1, <3>2, <3>3 DEF refused
    <3> QED BY <1>10, <1>11, <2>2, <3>3, <3>4
  <2> QED BY <2>1, <2>2
<1>17. Known(db, {})' BY <1>1 DEF IInv, Known
<1>18. Kept(rows)' /\ Kept(db)'
    BY <1>1, <1>2, <1>6, <1>9, <1>11 DEF IInv, Kept
<1> QED BY <1>13, <1>14, <1>15, <1>16, <1>17, <1>18 DEF IInv

\* A step that leaves disk and rows alone and hands nothing new to the run.
LEMMA OnlyJobMoves ==
    ASSUME IInv, TypeOK', UNCHANGED <<disk, rows>>,
           UNCHANGED db \/ (db' = rows /\ job.fetched = {}),
           job'.todo = job.todo, job'.fetched = job.fetched, PhaseInv'
    PROVE  IInv'
<1>1. Pending' BY DEF IInv, Pending
<1>2. Agree' BY DEF IInv, Agree
<1>3. Known(rows, job.fetched)' BY DEF IInv, Known
<1>4. Known(db, {})' BY DEF IInv, Known
<1>5. Kept(rows)' /\ Kept(db)' BY DEF IInv, Kept
<1> QED BY <1>1, <1>2, <1>3, <1>4, <1>5 DEF IInv

LEMMA HangUpKeeps ==
    ASSUME IInv, HangUp
    PROVE  IInv'
<1>1. job' = [job EXCEPT !.phase = "parse"] /\ job \in Jobs BY DEF HangUp, IInv, TypeOK
<1>2. /\ job' \in Jobs /\ job'.phase = "parse" /\ job'.todo = job.todo /\ job'.todo = {}
      /\ job'.fetched = job.fetched
    BY <1>1 DEF Jobs, HangUp
<1>3. TypeOK' BY <1>2 DEF HangUp, IInv, TypeOK, files, OnDisk
<1>4. PhaseInv' BY <1>2 DEF PhaseInv
<1> QED BY <1>2, <1>3, <1>4, OnlyJobMoves DEF HangUp, files

LEMMA StoredKeeps ==
    ASSUME IInv, Stored
    PROVE  IInv'
<1> DEFINE phase == IF job.read = {} THEN "tidy" ELSE "report"
<1>1. job' = [job EXCEPT !.phase = phase] /\ job \in Jobs BY DEF Stored, IInv, TypeOK
<1>2. /\ job' \in Jobs /\ job'.phase \in {"tidy", "report"} /\ job'.todo = job.todo
      /\ job'.fetched = job.fetched /\ job.fetched = {} /\ job.todo = {}
      /\ job'.read = job.read /\ (job'.phase = "report" => job.read # {})
    BY <1>1 DEF Jobs, Stored, IInv, PhaseInv
<1>3. TypeOK' BY <1>2 DEF Stored, IInv, TypeOK, files, OnDisk
<1>4. PhaseInv' BY <1>2 DEF PhaseInv
<1> QED BY <1>2, <1>3, <1>4, OnlyJobMoves DEF Stored, files

LEMMA WriteReportsKeeps ==
    ASSUME IInv, WriteReports
    PROVE  IInv'
<1>1. job \in Jobs /\ report \in [Files -> NoReport..(KeepReports + 1)] BY DEF IInv, TypeOK
<1>2. /\ job' \in Jobs /\ job'.phase \in {"record", "tidy"} /\ job'.todo = job.todo
      /\ job'.fetched = job.fetched /\ job.fetched = {} /\ job.todo = {}
      /\ job'.read = job.read /\ job.read # {}
    BY <1>1 DEF Jobs, WriteReports, IInv, PhaseInv
<1>3. report' \in [Files -> NoReport..(KeepReports + 1)]
    BY <1>1, KeepAssumption DEF WriteReports, NoReport
<1>4. TypeOK' BY <1>2, <1>3 DEF WriteReports, IInv, TypeOK, OnDisk
<1>5. PhaseInv' BY <1>2 DEF PhaseInv
<1> QED BY <1>2, <1>4, <1>5, OnlyJobMoves DEF WriteReports

LEMMA CommitKeeps ==
    ASSUME IInv, Commit
    PROVE  IInv'
<1>1. /\ IdleJob \in Jobs /\ IdleJob.phase = "idle" /\ IdleJob.todo = {} /\ IdleJob.fetched = {}
    BY DEF IdleJob, Jobs
<1>2. job.todo = {} /\ job.fetched = {} BY DEF Commit, IInv, PhaseInv
<1>3. TypeOK' BY <1>1 DEF Commit, IInv, TypeOK, files, OnDisk
<1>4. PhaseInv' BY <1>1 DEF Commit, PhaseInv, files
<1> QED BY <1>1, <1>2, <1>3, <1>4, OnlyJobMoves DEF Commit, files

\* Rolling back brings back rows that the disk still bears out.
LEMMA RollBackKeeps ==
    ASSUME IInv, TypeOK', rows' = db, UNCHANGED <<disk, db>>,
           job'.todo = {}, job'.fetched = {}, job'.phase \in {"idle", "tidy"}
    PROVE  IInv'
<1>1. Pending' BY DEF Pending
<1>2. PhaseInv' BY DEF PhaseInv
<1>3. Agree' BY DEF Agree
<1>4. Known(rows, job.fetched)' /\ Known(db, {})' BY DEF IInv, Known
<1>5. Kept(rows)' /\ Kept(db)' BY DEF IInv, Kept
<1> QED BY <1>1, <1>2, <1>3, <1>4, <1>5 DEF IInv

LEMMA FailKeeps ==
    ASSUME IInv, Fail
    PROVE  IInv'
<1>1. /\ job' \in Jobs /\ job'.phase = "tidy" /\ job'.todo = {} /\ job'.fetched = {}
    BY DEF Fail, IdleJob, Jobs
<1>2. faults' \in 0..MaxFaults BY FileAssumption DEF Fail, Fault, IInv, TypeOK
<1>3. part' \subseteq Files BY DEF Fail, IInv, TypeOK
<1>4. TypeOK' BY <1>1, <1>2, <1>3 DEF Fail, RolledBack, IInv, TypeOK
<1> QED BY <1>1, <1>4, RollBackKeeps DEF Fail, RolledBack

LEMMA CrashKeeps ==
    ASSUME IInv, Crash
    PROVE  IInv'
<1>1. /\ job' \in Jobs /\ job'.phase = "idle" /\ job'.todo = {} /\ job'.fetched = {}
    BY DEF Crash, IdleJob, Jobs
<1>2. faults' \in 0..MaxFaults BY FileAssumption DEF Crash, Fault, IInv, TypeOK
<1>3. TypeOK' BY <1>1, <1>2 DEF Crash, RolledBack, IInv, TypeOK, files
<1> QED BY <1>1, <1>3, RollBackKeeps DEF Crash, RolledBack, files

LEMMA ParseKeeps ==
    ASSUME IInv, NEW f \in Files, Parse(f)
    PROVE  IInv'
<1> DEFINE good == disk[f] = "good"
           status == IF good THEN "parsed" ELSE "quarantined"
<1>1. job.phase = "parse" /\ job.fetched # {} /\ f = Oldest(job.fetched)
      /\ UNCHANGED <<server, files, db, faults>>
    BY DEF Parse, IsNext
<1>2. rows \in Rows /\ job \in Jobs BY DEF IInv, TypeOK
<1>3. f \in job.fetched /\ job.todo = {}
    BY <1>1, OldestIsIn, JobTyped DEF IInv, PhaseInv
<1>4. rows.status[f] # "parsed" /\ db.status[f] # "parsed"
    BY <1>3 DEF IInv, Pending, Agree
<1>5. /\ rows' \in Rows /\ rows'.digests = rows.digests /\ rows'.status[f] = status
      /\ \A g \in Files \ {f} : rows'.status[g] = rows.status[g] /\ rows'.age[g] = rows.age[g]
  <2>1. /\ rows.status \in [Files -> {"new", "quarantined", "duplicate", "parsed"}]
        /\ rows.age \in [Files -> 0..(Keep + 1)]
      BY <1>2, RowsTyped
  <2>2. CASE good
    <3>1. rows' = [rows EXCEPT !.status = [rows.status EXCEPT ![f] = "parsed"],
                               !.age = [rows.age EXCEPT ![f] = 0]]
        BY <1>2, <2>2 DEF Parse, Rows
    <3>2. /\ [rows.status EXCEPT ![f] = "parsed"] \in [Files -> {"new", "quarantined", "duplicate", "parsed"}]
          /\ [rows.age EXCEPT ![f] = 0] \in [Files -> 0..(Keep + 1)]
        BY <2>1, KeepAssumption
    <3>3. /\ rows' \in Rows /\ rows'.digests = rows.digests
          /\ rows'.status = [rows.status EXCEPT ![f] = "parsed"]
          /\ rows'.age = [rows.age EXCEPT ![f] = 0]
        BY <1>2, <3>1, <3>2 DEF Rows
    <3> QED BY <2>1, <2>2, <3>3
  <2>3. CASE ~good
    <3>1. rows' = [rows EXCEPT !.status = [rows.status EXCEPT ![f] = "quarantined"]]
        BY <1>2, <2>3 DEF Parse, Rows
    <3>2. [rows.status EXCEPT ![f] = "quarantined"] \in [Files -> {"new", "quarantined", "duplicate", "parsed"}]
        BY <2>1
    <3>3. /\ rows' \in Rows /\ rows'.digests = rows.digests /\ rows'.age = rows.age
          /\ rows'.status = [rows.status EXCEPT ![f] = "quarantined"]
        BY <1>2, <3>1, <3>2 DEF Rows
    <3> QED BY <2>1, <2>3, <3>3
  <2> QED BY <2>2, <2>3
<1>6. /\ job' \in Jobs /\ job'.phase = "parse" /\ job'.todo = {}
      /\ job'.fetched = job.fetched \ {f}
  <2>1. CASE good
    <3>1. job' = [job EXCEPT !.fetched = job.fetched \ {f}, !.read = job.read \cup {f}]
        BY <2>1 DEF Parse
    <3>2. job.fetched \ {f} \in SUBSET Files /\ job.read \cup {f} \in SUBSET Files BY <1>2 DEF Jobs
    <3> QED BY <1>1, <1>2, <1>3, <3>1, <3>2 DEF Jobs
  <2>2. CASE ~good BY <1>1, <1>2, <1>3, <2>2 DEF Parse, Jobs
  <2> QED BY <2>1, <2>2
<1>7. TypeOK' BY <1>1, <1>5, <1>6 DEF IInv, TypeOK, files, OnDisk
<1>8. Pending' BY <1>5, <1>6, JobTyped DEF IInv, Pending
<1>9. Agree' /\ PhaseInv' BY <1>1, <1>4, <1>5, <1>6 DEF IInv, Agree, PhaseInv
<1>10. Known(rows, job.fetched)'
  <2> SUFFICES ASSUME NEW g \in Files, <<g, "good">> \in rows'.digests
               PROVE  rows'.status[g] = "parsed" \/ (g \in job'.fetched /\ disk'[g] = "good")
      BY DEF Known
  <2>1. rows.status[g] = "parsed" \/ (g \in job.fetched /\ disk[g] = "good")
      BY <1>5 DEF IInv, Known
  <2> QED BY <1>1, <1>4, <1>5, <1>6, <2>1 DEF files
<1>11. Known(db, {})' BY <1>1 DEF IInv, Known
<1>12. Kept(rows)' /\ Kept(db)' BY <1>1, <1>5 DEF IInv, Kept, files
<1> QED BY <1>7, <1>8, <1>9, <1>10, <1>11, <1>12 DEF IInv

LEMMA RecordReportsKeeps ==
    ASSUME IInv, RecordReports
    PROVE  IInv'
<1>1. /\ rows' = [rows EXCEPT !.report = @ \cup {Newest}] /\ db' = rows'
      /\ job' = [job EXCEPT !.phase = "tidy"] /\ UNCHANGED <<server, files, faults>>
    BY DEF RecordReports
<1>2. rows \in Rows /\ job \in Jobs BY DEF IInv, TypeOK
<1>3. Newest \in Files /\ job.todo = {} /\ job.fetched = {}
    BY NewestIsRead DEF RecordReports, IInv, PhaseInv
<1>4. /\ rows' \in Rows /\ rows'.status = rows.status /\ rows'.age = rows.age
      /\ rows'.digests = rows.digests
    BY <1>1, <1>2, <1>3 DEF Rows
<1>5. job' \in Jobs /\ job'.phase = "tidy" /\ job'.todo = {} /\ job'.fetched = {}
    BY <1>1, <1>2, <1>3 DEF Jobs
<1>6. TypeOK' BY <1>1, <1>4, <1>5 DEF IInv, TypeOK, files
<1>7. Pending' /\ Agree' /\ PhaseInv' BY <1>1, <1>4, <1>5 DEF Pending, Agree, PhaseInv
<1>8. Known(rows, job.fetched)' /\ Known(db, {})' BY <1>1, <1>3, <1>4, <1>5 DEF IInv, Known
<1>9. Kept(rows)' /\ Kept(db)' BY <1>1, <1>4 DEF IInv, Kept, files
<1> QED BY <1>6, <1>7, <1>8, <1>9 DEF IInv

\* Only what both the session and the commit have as too old is deleted.
LEMMA HousekeepingKeeps ==
    ASSUME IInv, Housekeeping
    PROVE  IInv'
<1>1. PICK locked \in SUBSET (Expired \cap OnDisk) :
        /\ IF locked = {} THEN UNCHANGED faults ELSE Fault
        /\ disk' = [f \in Files |-> IF f \in Expired \ locked THEN "none" ELSE disk[f]]
        /\ rows' = [rows EXCEPT !.path = Cleared(locked)]
        /\ report' = [f \in Files |-> IF f \in Reports \cap rows.report /\ Old(f)
                                      THEN NoReport ELSE report[f]]
    BY DEF Housekeeping, Tidies
<1>2. /\ job.phase = "tidy" /\ job' = [job EXCEPT !.phase = "end"]
      /\ UNCHANGED <<server, part, db>>
    BY DEF Housekeeping
<1>3. /\ rows \in Rows /\ job \in Jobs /\ disk \in [Files -> Contents \cup {"none"}]
      /\ report \in [Files -> NoReport..(KeepReports + 1)] /\ faults \in 0..MaxFaults
    BY DEF IInv, TypeOK
<1>4. /\ rows' \in Rows /\ rows'.status = rows.status /\ rows'.age = rows.age
      /\ rows'.digests = rows.digests
    BY <1>1, <1>3 DEF Rows, Cleared
<1>5. /\ job' \in Jobs /\ job'.phase = "end" /\ job'.todo = {} /\ job'.fetched = {}
      /\ job.fetched = {}
    BY <1>2, <1>3 DEF Jobs, IInv, PhaseInv
<1>6. /\ disk' \in [Files -> Contents \cup {"none"}]
      /\ \A f \in Files : f \notin Expired => disk'[f] = disk[f]
    BY <1>1, <1>3
<1>7. report' \in [Files -> NoReport..(KeepReports + 1)]
    BY <1>1, <1>3, KeepAssumption DEF NoReport
<1>8. faults' \in 0..MaxFaults BY <1>1, <1>3, FileAssumption DEF Fault
<1>9. TypeOK' BY <1>2, <1>4, <1>5, <1>6, <1>7, <1>8 DEF IInv, TypeOK
<1>10. Pending' /\ Agree' /\ PhaseInv' BY <1>2, <1>4, <1>5 DEF IInv, Pending, Agree, PhaseInv
<1>11. Known(rows, job.fetched)' /\ Known(db, {})' BY <1>2, <1>4, <1>5 DEF IInv, Known
<1>12. Kept(rows)' /\ Kept(db)'
  <2>1. rows.age \in [Files -> 0..(Keep + 1)] BY <1>3, RowsTyped
  <2>2. \A f \in Files : rows.status[f] = "parsed" /\ rows.age[f] <= Keep => disk'[f] = disk[f]
      BY <1>6, <2>1, KeepAssumption DEF Expired
  <2>3. Kept(rows)' BY <1>4, <2>2 DEF IInv, Kept
  <2>4. Kept(db)' BY <1>2, <2>2 DEF IInv, Kept, Agree
  <2> QED BY <2>3, <2>4
<1> QED BY <1>9, <1>10, <1>11, <1>12 DEF IInv

LEMMA RunStepKeeps ==
    ASSUME IInv, RunStep
    PROVE  IInv'
<1>1. ASSUME NEW f \in Files,
             DownloadStart(f) \/ DownloadEnd(f) \/ DownloadBreaks(f) \/ Check(f) \/ Parse(f)
      PROVE  IInv'
    BY <1>1, DownloadStartKeeps, DownloadEndKeeps, DownloadBreaksKeeps, CheckKeeps, ParseKeeps
<1>2. ASSUME HangUp \/ Stored \/ WriteReports \/ RecordReports \/ Housekeeping \/ Commit
      PROVE  IInv'
    BY <1>2, HangUpKeeps, StoredKeeps, WriteReportsKeeps, RecordReportsKeeps, HousekeepingKeeps,
       CommitKeeps
<1> QED BY <1>1, <1>2 DEF RunStep

LEMMA StepKeeps ==
    ASSUME IInv, [Next]_vars
    PROVE  IInv'
<1>1. CASE (\E f \in Files : Publish(f) \/ Mend(f) \/ Expire(f)) \/ Prune BY <1>1, OutsideKeeps
<1>2. CASE Day \/ RunStart \/ RunStep BY <1>2, DayKeeps, RunStartKeeps, RunStepKeeps
<1>3. CASE Fail \/ Crash BY <1>3, FailKeeps, CrashKeeps
<1>4. CASE UNCHANGED vars
  <2>1. TypeOK' BY <1>4 DEF vars, files, IInv, TypeOK, OnDisk
  <2> QED BY <1>4, <2>1, NothingChanged DEF vars, files
<1> QED BY <1>1, <1>2, <1>3, <1>4 DEF Next

-----------------------------------------------------------------------------
(* The theorems. *)

LEMMA AlwaysIInv == Spec => []IInv
BY InitKeeps, StepKeeps, PTL DEF Spec

\* Rows, files and the program of a run have their types, whatever fails and when: a run
\* never hands an archive on that is not on the disk.
THEOREM TypeCorrect == Spec => []TypeOK
<1>1. IInv => TypeOK BY DEF IInv
<1> QED BY <1>1, AlwaysIInv, PTL

\* An archive that was read stays, whole and under its name, for as long as it is kept:
\* neither a later download, nor a refused one, nor a failure between file and row, nor
\* tidying up takes it away.  (_ingest, _housekeeping)
THEOREM ParsedStaysKept == Spec => []ParsedIsKept
<1>1. IInv => ParsedIsKept BY DEF IInv, Kept, ParsedIsKept
<1> QED BY <1>1, AlwaysIInv, PTL

\* No failure, at whatever point of a run, leaves the digest of a good file on record
\* without the rows read from it: its bytes would be taken for a duplicate ever after.
\* (_ingest, content_sha256)
THEOREM KnownFilesWereRead == Spec => []KnownWasRead
<1>1. IInv => KnownWasRead BY DEF IInv, Known, KnownWasRead
<1> QED BY <1>1, AlwaysIInv, PTL
=============================================================================
