----------------------------- MODULE VendorSync -----------------------------
(***************************************************************************)
(* From the vendor's files to the changes of a run: which files on the     *)
(* vendor's server are read, in which order, which are refused, what they  *)
(* leave in feed_files and vendor_products, and what is decided from it.   *)
(* A run works in a database session; db is what is committed, when the    *)
(* vendor's data is stored and when the run ends, and a crash loses the    *)
(* rest.  How the changes fare at Amazon is PushLifecycle's matter: here a *)
(* change is applied or not, and read back or not.                         *)
(***************************************************************************)
EXTENDS Decision

CONSTANTS
    Stock,             \* the stock figures the vendor writes
    Shown,             \* the quantities Amazon may show at first
    MaxFile,           \* bound on the vendor's files; file names in sort order
    MinRowsPercent,    \* guardrail_min_feed_rows_percent
    MissingThreshold,  \* missing_full_feeds_before_zero
    BadHeaders,        \* whether the vendor may change the columns
    Forcing,           \* whether the operator uses "Reconcile everything"
    MaxFaults          \* bound on crashes, lost connections and failed sends

ASSUME StockAssumption == Stock \subseteq Nat /\ Shown \subseteq Nat
ASSUME FileAssumption == MaxFile \in Nat /\ MinRowsPercent \in Nat /\ MaxFaults \in Nat
ASSUME MissingAssumption == MissingThreshold \in Nat \ {0}
ASSUME OperatorAssumption == BadHeaders \in BOOLEAN /\ Forcing \in BOOLEAN

VARIABLES
    server,   \* the vendor's server: is the file there, and complete
    feed,     \* what the complete file holds
    status,   \* feed_files.status of the file's latest record
    hashes,   \* feed_files.content_sha256
    stock,    \* vendor_products.stock; NoQty where there is no row
    source,   \* vendor_products.source_file_id
    inFull,   \* vendor_products.last_full_feed_id IS NOT NULL
    missing,  \* vendor_products.missing_from_full_feeds
    db,       \* the committed values of the six above
    job,      \* the program of the run that holds the lock
    listing,  \* amazon_listings: the cached quantities
    amazon,   \* what Amazon shows
    faults    \* the faults so far

vendor == <<server, feed>>
session == <<status, hashes, stock, source, inFull, missing>>
shop == <<listing, amazon>>
vars == <<vendor, session, db, job, shop, faults>>

Files == 1..MaxFile

\* Two files with the same text have the same bytes; a text is named after the
\* first file that holds it.
Feeds == [kind: {"full", "delta"}, rows: [Products -> Stock \cup {NoQty}], header: BOOLEAN,
          text: Files]

Statuses == {"new", "quarantined", "parsed", "duplicate"}

Stores == [status: [Files -> Statuses], hashes: SUBSET (Files \X {"partial", "whole"}),
           stock: [Products -> Stock \cup {NoQty}], source: [Products -> 0..MaxFile],
           inFull: [Products -> BOOLEAN], missing: [Products -> Nat]]

Snapshot == [status |-> status, hashes |-> hashes, stock |-> stock, source |-> source,
             inFull |-> inFull, missing |-> missing]

Jobs == [phase: {"idle", "fetch", "parse", "decide", "send"}, force: BOOLEAN, halted: BOOLEAN,
         todo: SUBSET Files, fetched: SUBSET Files, read: SUBSET Files,
         batch: SUBSET [sku: Products, from: Nat, to: Nat, why: {"stock", "dropped"}]]

IdleJob == [phase |-> "idle", force |-> FALSE, halted |-> FALSE,
            todo |-> {}, fetched |-> {}, read |-> {}, batch |-> {}]

TypeOK ==
    /\ server \in [Files -> {"absent", "partial", "whole", "gone"}]
    /\ feed \in [Files -> Feeds]
    /\ Snapshot \in Stores
    /\ db \in Stores
    /\ job \in Jobs
    /\ listing \in [Products -> Nat]
    /\ amazon \in [Products -> Nat]
    /\ faults \in 0..MaxFaults

NoFeed == [kind |-> "delta", rows |-> [p \in Products |-> NoQty], header |-> TRUE, text |-> 1]

Init ==
    /\ server = [f \in Files |-> "absent"]
    /\ feed = [f \in Files |-> NoFeed]
    /\ status = [f \in Files |-> "new"]
    /\ hashes = {}
    /\ stock = [p \in Products |-> NoQty]
    /\ source = [p \in Products |-> 0]
    /\ inFull = [p \in Products |-> FALSE]
    /\ missing = [p \in Products |-> 0]
    /\ db = Snapshot
    /\ job = IdleJob
    /\ amazon \in [Products -> Shown]
    /\ listing = amazon
    /\ faults = 0

-----------------------------------------------------------------------------
(* The vendor. *)

Mentioned(f) == {p \in Products : feed[f].rows[p] # NoQty}

\* A new file appears, complete or still being uploaded, in whatever order: a
\* day's full feed sorts before its deltas.  It may be an old one renamed.
Publish(f) ==
    /\ server[f] = "absent"
    /\ \E kind \in {"full", "delta"}, rows \in [Products -> Stock \cup {NoQty}], header \in BOOLEAN :
          /\ \E p \in Products : rows[p] # NoQty
          /\ header \/ BadHeaders
          /\ LET same == {g \in Files : /\ server[g] # "absent" /\ feed[g].kind = kind
                                       /\ feed[g].rows = rows /\ feed[g].header = header}
             IN  \E text \in {feed[g].text : g \in same} \cup {f} :
                    feed' = [feed EXCEPT ![f] = [kind |-> kind, rows |-> rows, header |-> header,
                                                 text |-> text]]
    /\ \E form \in {"partial", "whole"} : server' = [server EXCEPT ![f] = form]
    /\ UNCHANGED <<session, db, job, shop, faults>>

Completes(f) ==
    /\ server[f] = "partial"
    /\ server' = [server EXCEPT ![f] = "whole"]
    /\ UNCHANGED <<feed, session, db, job, shop, faults>>

\* The vendor takes the file down.  Its name no longer being today's comes to
\* the same for the next run, and a run that has listed it reads it first.
Expires(f) ==
    /\ server[f] \in {"partial", "whole"}
    /\ server' = [server EXCEPT ![f] = "gone"]
    /\ UNCHANGED <<feed, session, db, job, shop, faults>>

-----------------------------------------------------------------------------
(* Fetching. *)

\* A mutant of Handled: a file set aside is never looked at again.
HandledOnce(f) == status[f] # "new"

\* The files whose name the next run passes over.
Handled(f) == status[f] \in {"parsed", "duplicate"}

RunStart(force) ==
    /\ job.phase = "idle"
    /\ force => Forcing
    /\ job' = [IdleJob EXCEPT !.phase = "fetch", !.force = force,
                              !.todo = {f \in Files : server[f] \in {"partial", "whole"} /\ ~Handled(f)}]
    /\ UNCHANGED <<vendor, session, db, shop, faults>>

Oldest(files) == CHOOSE f \in files : \A g \in files : f <= g

\* A mutant of KnownText: only files that were read to the end count as known.
KnownTextRead(bytes) ==
    bytes[2] = "whole" /\ \E f \in Files : status[f] = "parsed" /\ feed[f].text = bytes[1]

KnownText(bytes) == bytes \in hashes

\* The digest of the bytes on the server is recorded before the archive is
\* verified, and stays with a file that is set aside.
Fetch(f) ==
    LET bytes == <<feed[f].text, server[f]>> IN
    /\ job.phase = "fetch" /\ job.todo # {} /\ f = Oldest(job.todo)
    /\ server[f] # "gone"
    /\ IF KnownText(bytes)
       THEN /\ status' = [status EXCEPT ![f] = "duplicate"]
            /\ job' = [job EXCEPT !.todo = @ \ {f}]
            /\ UNCHANGED hashes
       ELSE /\ hashes' = hashes \cup {bytes}
            /\ IF server[f] = "whole"
               THEN /\ job' = [job EXCEPT !.todo = @ \ {f}, !.fetched = @ \cup {f}]
                    /\ UNCHANGED status
               ELSE /\ status' = [status EXCEPT ![f] = "quarantined"]
                    /\ job' = [job EXCEPT !.todo = @ \ {f}]
    /\ UNCHANGED <<vendor, stock, source, inFull, missing, db, shop, faults>>

\* The connection is lost: this file and all that follow wait for the next run.
FetchBreaks(f) ==
    /\ job.phase = "fetch" /\ job.todo # {} /\ f = Oldest(job.todo)
    /\ \/ faults < MaxFaults /\ faults' = faults + 1
       \/ server[f] = "gone" /\ UNCHANGED faults
    /\ status' = [status EXCEPT ![f] = "quarantined"]
    /\ job' = [job EXCEPT !.todo = {}]
    /\ UNCHANGED <<vendor, hashes, stock, source, inFull, missing, db, shop>>

HangUp ==
    /\ job.phase = "fetch" /\ job.todo = {}
    /\ job' = [job EXCEPT !.phase = "parse"]
    /\ UNCHANGED <<vendor, session, db, shop, faults>>

-----------------------------------------------------------------------------
(* Parsing and storing. *)

ParsedFull == {f \in Files : status[f] = "parsed" /\ feed[f].kind = "full"}

RowCount(f) == Cardinality(Mentioned(f))

\* The file with exactly k of the parsed full feeds before it, by row count.
Nth(k) == CHOOSE f \in ParsedFull : k = Cardinality({g \in ParsedFull :
             RowCount(g) < RowCount(f) \/ (RowCount(g) = RowCount(f) /\ g < f)})

Median == LET n == Cardinality(ParsedFull)
          IN  (RowCount(Nth((n - 1) \div 2)) + RowCount(Nth(n \div 2))) \div 2

\* check_feed_row_count: with no full feed to compare with, any size will do.
TooShort(f) ==
    /\ feed[f].kind = "full" /\ ParsedFull # {}
    /\ RowCount(f) < (Median * MinRowsPercent) \div 100

\* _upsert: the rows reach vendor_products before the file is judged.
Upsert(f) ==
    /\ stock' = [p \in Products |-> IF p \in Mentioned(f) THEN feed[f].rows[p] ELSE stock[p]]
    /\ source' = [p \in Products |-> IF p \in Mentioned(f) THEN f ELSE source[p]]
    /\ inFull' = [p \in Products |-> inFull[p] \/ (feed[f].kind = "full" /\ p \in Mentioned(f))]

\* A mutant of Counts: absence from any feed counts.
CountsAny(f) == TRUE

\* _mark_missing_from_full_feed is for full feeds only.
Counts(f) == feed[f].kind = "full"

\* The counter after file f: a mention in a full feed resets it; a product that
\* no full feed ever mentioned has a NULL there, and is not counted.
Missing(f, accepted) == [p \in Products |->
    IF p \in Mentioned(f) THEN IF feed[f].kind = "full" THEN 0 ELSE missing[p]
    ELSE IF accepted /\ Counts(f) /\ inFull[p] THEN missing[p] + 1 ELSE missing[p]]

ParseFile(f) ==
    /\ job.phase = "parse" /\ job.fetched # {} /\ f = Oldest(job.fetched)
    /\ IF ~feed[f].header
       THEN /\ status' = [status EXCEPT ![f] = "quarantined"]
            /\ job' = [job EXCEPT !.fetched = @ \ {f}]
            /\ UNCHANGED <<stock, source, inFull, missing>>
       ELSE /\ Upsert(f)
            /\ missing' = Missing(f, ~TooShort(f))
            /\ IF TooShort(f)
               THEN /\ status' = [status EXCEPT ![f] = "quarantined"]
                    /\ job' = [job EXCEPT !.fetched = @ \ {f}, !.halted = TRUE]
               ELSE /\ status' = [status EXCEPT ![f] = "parsed"]
                    /\ job' = [job EXCEPT !.fetched = @ \ {f}, !.read = @ \cup {f}]
    /\ UNCHANGED <<vendor, hashes, db, shop, faults>>

\* The vendor's data is committed; a refused feed ends the run here.
Stored ==
    /\ job.phase = "parse" /\ job.fetched = {}
    /\ db' = Snapshot
    /\ job' = IF job.halted THEN IdleJob ELSE [job EXCEPT !.phase = "decide"]
    /\ UNCHANGED <<vendor, session, shop, faults>>

-----------------------------------------------------------------------------
(* Deciding. *)

\* A mutant of Candidates: the first version, which looked only at what the
\* files of this run mention.
CandidatesTouched == UNION {Mentioned(f) : f \in job.read}

\* Every run re-decides the whole in-scope catalogue.
Candidates == Products

\* A mutant of MayDrop: any file lets a run take dropped products off sale.
MayDropAny == job.read # {} \/ job.force

MayDrop == job.force \/ \E f \in job.read : feed[f].kind = "full"

\* A product no feed ever mentioned counts as dropped.
IsDropped(p) == missing[p] >= MissingThreshold \/ stock[p] = NoQty

Decisions ==
    (UNION {Decide(p, stock[p], listing[p]) : p \in {q \in Candidates : stock[q] # NoQty}})
    \cup (IF MayDrop THEN UNION {DecideDropped(p, listing[p]) : p \in {q \in Products : IsDropped(q)}}
          ELSE {})

\* Nothing to change, or the gate stops the run; or a batch is on record.
DecideRun ==
    /\ job.phase = "decide"
    /\ \E batch \in ThisRun(Decisions) :
          job' = IF batch # {} /\ GatePassed(batch)
                 THEN [job EXCEPT !.phase = "send", !.batch = batch] ELSE IdleJob
    /\ UNCHANGED <<vendor, session, db, shop, faults>>

\* Amazon applies the changes of `taken`, in the order they are sent; `shown`
\* are read back.
Send(taken, shown) ==
    LET changed == {d.sku : d \in taken} IN
    /\ job.phase = "send"
    /\ shown \subseteq changed
    /\ amazon' = [p \in Products |->
            IF p \in changed THEN LastOf({d \in taken : d.sku = p}).to ELSE amazon[p]]
    /\ listing' = [p \in Products |-> IF p \in shown THEN amazon'[p] ELSE listing[p]]
    /\ job' = IdleJob
    /\ UNCHANGED <<vendor, session, db>>

SendAll == Send(job.batch, {}) /\ UNCHANGED faults
SendAllShown == Send(job.batch, {d.sku : d \in job.batch}) /\ UNCHANGED faults

SendSome ==
    /\ faults < MaxFaults /\ faults' = faults + 1
    /\ \E taken \in SUBSET job.batch : taken # job.batch /\ Send(taken, {d.sku : d \in taken})

\* job_catalog_refresh
Refresh ==
    /\ job.phase = "idle"
    /\ listing' = amazon
    /\ UNCHANGED <<vendor, session, db, job, amazon, faults>>

\* The process dies, or an exception ends the run: the session is rolled back.
Crash ==
    /\ job.phase # "idle"
    /\ faults < MaxFaults /\ faults' = faults + 1
    /\ job' = IdleJob
    /\ status' = db.status /\ hashes' = db.hashes /\ stock' = db.stock
    /\ source' = db.source /\ inFull' = db.inFull /\ missing' = db.missing
    /\ UNCHANGED <<vendor, db, shop>>

-----------------------------------------------------------------------------
VendorStep == \E f \in Files : Publish(f) \/ Completes(f) \/ Expires(f)

RunStep ==
    \/ \E f \in Files : Fetch(f) \/ FetchBreaks(f) \/ ParseFile(f)
    \/ HangUp \/ Stored \/ DecideRun \/ SendAll \/ SendAllShown \/ SendSome

Next ==
    \/ VendorStep \/ RunStep \/ Refresh \/ Crash
    \/ \E force \in BOOLEAN : RunStart(force)

Spec == Init /\ [][Next]_vars

\* A run goes on until it ends; the scheduler starts runs and refreshes again
\* and again, and each finds the run lock free now and then.
Fairness == WF_vars(RunStep) /\ SF_vars(RunStart(FALSE)) /\ SF_vars(Refresh)

FairSpec == Spec /\ Fairness

-----------------------------------------------------------------------------
(* What must hold. *)

\* Nothing is read twice, whatever name it comes under and wherever a run was
\* interrupted.  (feed_files.content_sha256)
NothingReadTwice ==
    \A f, g \in Files : status[f] = "parsed" /\ status[g] = "parsed" /\ f # g
                        => feed[f].text # feed[g].text

\* The dropped-product counter counts full feeds, accepted ones, that left the
\* product out: never a delta.  (_mark_missing_from_full_feed)
MissingIsCounted ==
    \A p \in Products : missing[p] <= Cardinality({f \in ParsedFull : p \notin Mentioned(f)})

\* A run nobody forced takes a product off sale as dropped only when a full
\* feed that was accepted left it out.  (_decide, allow_dropped)
DropHasFullFeed ==
    job.phase = "send" /\ ~job.force =>
        \A d \in job.batch : d.why = "dropped" => \E f \in ParsedFull : d.sku \notin Mentioned(f)

\* A complete file with the known columns, neither its name nor its bytes
\* known, is taken in, unless the vendor takes it down before.  (_ingest)
WholeFileIsRead ==
    \A f \in Files :
        /\ job.phase = "idle"
        /\ server[f] = "whole" /\ feed[f].header /\ status[f] \in {"new", "quarantined"}
        /\ <<feed[f].text, "whole">> \notin hashes
        ~> \/ server[f] = "gone"
           \/ \E g \in Files : /\ feed[g].text = feed[f].text
                               /\ db.status[g] \in {"parsed", "quarantined"}
                               /\ <<feed[f].text, "whole">> \in db.hashes

\* When the vendor has nothing new to say, the whole backlog reaches Amazon,
\* however small the change limit.  (_decide, "every run reconciles")
BacklogClears ==
    <>[](\A p \in Products \ Untouchable :
            db.stock[p] # NoQty /\ db.missing[p] < MissingThreshold
            => amazon[p] = Desired(db.stock[p], Rules[p]))
=============================================================================
