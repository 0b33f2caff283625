-------------------------- MODULE VendorSync_proofs --------------------------
(***************************************************************************)
(* What the rules of Decision promise for every stock figure, every rule   *)
(* set and every set of decisions; and what VendorSync promises for any    *)
(* products, any number of files, any thresholds and any number of faults. *)
(***************************************************************************)
EXTENDS VendorSync, FiniteSetTheorems, WellFoundedInduction, TLAPS

-----------------------------------------------------------------------------
(* The rules of Decision: quantities. *)

\* A listing never offers more than the vendor has left after the buffer, nor
\* more than the cap.  (desired_quantity)
THEOREM DesiredIsCovered ==
    ASSUME NEW figure \in Nat, NEW rules \in RuleSets
    PROVE  /\ Desired(figure, rules) \in 0..rules.cap
           /\ Desired(figure, rules) # 0 => Desired(figure, rules) + rules.buffer <= figure
<1>1. rules.buffer \in Nat /\ rules.cap \in Nat /\ rules.zeroAt \in Nat BY DEF RuleSets
<1> QED BY <1>1 DEF Desired

\* More stock at the vendor never means less on Amazon.  (desired_quantity)
THEOREM DesiredGrowsWithStock ==
    ASSUME NEW rules \in RuleSets, NEW less \in Nat, NEW more \in Nat, less <= more
    PROVE  Desired(less, rules) <= Desired(more, rules)
<1>1. rules.buffer \in Nat /\ rules.cap \in Nat /\ rules.zeroAt \in Nat BY DEF RuleSets
<1> QED BY <1>1 DEF Desired

\* A change that went through proposes no further change: the same stock and
\* the quantity just sent decide on nothing.  (DecisionEngine.decide)
THEOREM DecidedIsSettled ==
    ASSUME NEW p \in Products, NEW figure, NEW shown, NEW d \in Decide(p, figure, shown)
    PROVE  Decide(p, figure, d.to) = {}
<1>1. d = Change(p, shown, Desired(figure, Rules[p]), "stock") BY DEF Decide
<1>2. d.to = Desired(figure, Rules[p]) BY <1>1 DEF Change
<1>3. ~WorthSending(Change(p, d.to, Desired(figure, Rules[p]), "stock"), Rules[p])
  BY <1>2 DEF WorthSending, Change
<1> QED BY <1>3 DEF Decide

-----------------------------------------------------------------------------
(* The rules of Decision: the change limit. *)

\* As long as one change that takes a product off sale has to wait, the run
\* sends nothing else.  (Decision.priority, apply_change_limit)
THEOREM ZerosGoFirst ==
    ASSUME NEW decisions, NEW batch \in ThisRun(decisions),
           NEW waiting \in decisions \ batch, Direction(waiting) = "to_zero",
           NEW d \in batch
    PROVE  Direction(d) = "to_zero"
<1>1. batch # decisions OBVIOUS
<1>2. Limited(decisions) BY <1>1 DEF ThisRun
<1>3. ~Before(waiting, d) BY <1>2 DEF ThisRun
<1>4. Rank(waiting) = 0 BY DEF Rank
<1>5. Rank(d) \in {0, 1, 2} BY DEF Rank
<1>6. Rank(d) = 0 BY <1>3, <1>4, <1>5 DEF Before
<1> QED BY <1>6 DEF Rank

\* No product goes up while one that must go down waits.  (apply_change_limit)
THEOREM DownGoesBeforeUp ==
    ASSUME NEW decisions, NEW batch \in ThisRun(decisions),
           NEW waiting \in decisions \ batch, Direction(waiting) = "down",
           NEW d \in batch
    PROVE  Direction(d) # "up"
<1>1. batch # decisions OBVIOUS
<1>2. Limited(decisions) BY <1>1 DEF ThisRun
<1>3. ~Before(waiting, d) BY <1>2 DEF ThisRun
<1>4. Rank(waiting) = 1 BY DEF Rank
<1>5. SUFFICES ASSUME Direction(d) = "up" PROVE FALSE OBVIOUS
<1>6. Rank(d) = 2 BY <1>5 DEF Rank
<1> QED BY <1>3, <1>4, <1>6 DEF Before

\* Nothing a run may send is made up, and it is within the limit.
\* (apply_change_limit)
THEOREM LimitIsKept ==
    ASSUME NEW decisions, NEW batch \in ThisRun(decisions)
    PROVE  batch \subseteq decisions
           /\ (Limited(decisions) => Cardinality(batch) = ChangeLimit)
<1> QED BY DEF ThisRun

-----------------------------------------------------------------------------
(* The inductive invariant. *)

\* The full feeds that rows s say were read and that leave p out.
Omitting(s, p) == {f \in Files : s.status[f] = "parsed" /\ feed[f].kind = "full" /\ p \notin Mentioned(f)}

\* Rows s, of the session or committed, agree with the files they were read from: the
\* bytes of a file that was read are known and those of no other one, its products have a
\* row, and a product was counted as missing once at most for each feed that left it out.
Known(s) == \A f \in Files : s.status[f] = "parsed" =>
    server[f] # "absent" /\ <<feed[f].text, "whole">> \in s.hashes

Distinct(s) == \A f, g \in Files : s.status[f] = "parsed" /\ s.status[g] = "parsed" /\ f # g
                                   => feed[f].text # feed[g].text

Stocked(s) == \A f \in Files : s.status[f] = "parsed" =>
    \A p \in Mentioned(f) : s.stock[p] # NoQty

Counted(s) == \A p \in Products : s.missing[p] <= Cardinality(Omitting(s, p))

Sound(s) == Known(s) /\ Distinct(s) /\ Stocked(s) /\ Counted(s)

\* A run fetches what it has not read.
Queued == \A f \in job.todo : server[f] # "absent" /\ status[f] # "parsed" /\ f \notin job.fetched

\* The bytes it has fetched are known, and are no other file's that was fetched or read.
Fetched == \A f \in job.fetched :
    /\ server[f] # "absent" /\ status[f] # "parsed"
    /\ <<feed[f].text, "whole">> \in hashes
    /\ \A g \in Files \ {f} : g \in job.fetched \/ status[g] = "parsed" => feed[g].text # feed[f].text

ReadIsParsed == \A f \in job.read : status[f] = "parsed"

IInv ==
    /\ TypeOK
    /\ Sound(Snapshot) /\ Sound(db)
    /\ Queued /\ Fetched /\ ReadIsParsed
    /\ DropHasFullFeed

-----------------------------------------------------------------------------
(* Files, products and decisions. *)

LEMMA FilesAreFinite == IsFiniteSet(Files)
BY FS_Interval, FileAssumption DEF Files

\* Of a set of naturals there is a least.
LEMMA LeastExists ==
    ASSUME NEW numbers \in SUBSET Nat, numbers # {}
    PROVE  \E m \in numbers : \A n \in numbers : m <= n
<1>1. IsWellFoundedOn(OpToRel(<, Nat), Nat) BY NatLessThanWellFounded
<1>2. PICK m \in numbers : \A n \in numbers : <<n, m>> \notin OpToRel(<, Nat) BY <1>1, WFMin
<1>3. \A n \in numbers : m <= n
  <2> TAKE n \in numbers
  <2>1. ~(n < m) BY <1>2 DEF OpToRel
  <2> QED BY <2>1
<1> QED BY <1>3

LEMMA OldestIsIn ==
    ASSUME NEW files \in SUBSET Files, files # {}
    PROVE  Oldest(files) \in files
<1>1. \E m \in files : \A n \in files : m <= n BY LeastExists, FileAssumption DEF Files
<1> QED BY <1>1 DEF Oldest

Quantities == [sku: Products, from: Nat, to: Nat, why: {"stock", "dropped"}]

\* The last of some decisions is one of them: of those of the highest rank, the smallest.
LEMMA LastIsIn ==
    ASSUME NEW some \in SUBSET Quantities, some # {}
    PROVE  LastOf(some) \in some
<1>1. \A d \in some : d.from \in Nat /\ d.to \in Nat BY DEF Quantities
<1>2. \A d \in some : Rank(d) \in {0, 1, 2} /\ Size(d) \in Nat BY <1>1 DEF Rank, Size
<1>3. PICK top \in {0, 1, 2} : (\E d \in some : Rank(d) = top) /\ \A d \in some : Rank(d) <= top
  <2>1. CASE \E d \in some : Rank(d) = 2 BY <1>2, <2>1
  <2>2. CASE (\A d \in some : Rank(d) # 2) /\ \E d \in some : Rank(d) = 1 BY <1>2, <2>2
  <2>3. CASE \A d \in some : Rank(d) # 2 /\ Rank(d) # 1 BY <1>2, <2>3
  <2> QED BY <2>1, <2>2, <2>3
<1> DEFINE sizes == {n \in Nat : \E d \in some : Rank(d) = top /\ Size(d) = n}
<1>4. sizes # {} BY <1>2, <1>3
<1>5. PICK m \in sizes : \A n \in sizes : m <= n BY <1>4, LeastExists
<1>6. PICK last \in some : Rank(last) = top /\ Size(last) = m BY <1>5
<1>7. \A e \in some : ~Before(last, e)
  <2> TAKE e \in some
  <2>1. Rank(e) <= top BY <1>3
  <2>2. CASE Rank(e) = top
    <3>1. Size(e) \in sizes BY <1>2, <2>2
    <3>2. m <= Size(e) BY <1>5, <3>1
    <3> QED BY <1>2, <1>5, <1>6, <2>2, <3>2 DEF Before
  <2>3. CASE Rank(e) # top BY <1>2, <1>6, <2>1, <2>3 DEF Before
  <2> QED BY <2>2, <2>3
<1> QED BY <1>6, <1>7 DEF LastOf

\* A decision starts from what Amazon is known to show, and says why.
LEMMA DecisionsTyped ==
    ASSUME TypeOK
    PROVE  /\ Decisions \subseteq Quantities
           /\ \A d \in Decisions : d.why = "dropped" => MayDrop /\ IsDropped(d.sku)
<1>0. /\ stock \in [Products -> Stock \cup {NoQty}] /\ listing \in [Products -> Nat]
    BY DEF TypeOK, Snapshot, Stores
<1>1. ASSUME NEW p \in Products, stock[p] # NoQty, NEW d \in Decide(p, stock[p], listing[p])
      PROVE  d \in Quantities /\ d.why = "stock"
  <2>1. d = Change(p, listing[p], Desired(stock[p], Rules[p]), "stock") BY <1>1 DEF Decide
  <2>2. stock[p] \in Nat /\ Rules[p] \in RuleSets BY <1>0, <1>1, StockAssumption, RulesAssumption
  <2>3. Desired(stock[p], Rules[p]) \in 0..Rules[p].cap /\ Rules[p].cap \in Nat
      BY <2>2, DesiredIsCovered DEF RuleSets
  <2> QED BY <1>0, <2>1, <2>3 DEF Change, Quantities
<1>2. ASSUME NEW p \in Products, NEW d \in DecideDropped(p, listing[p])
      PROVE  d \in Quantities /\ d.sku = p
    BY <1>0, <1>2 DEF DecideDropped, Change, Quantities
<1>3. ASSUME NEW d \in Decisions
      PROVE  d \in Quantities /\ (d.why = "dropped" => MayDrop /\ IsDropped(d.sku))
  <2>1. CASE \E p \in Products : stock[p] # NoQty /\ d \in Decide(p, stock[p], listing[p])
      BY <1>1, <2>1
  <2>2. CASE MayDrop /\ \E p \in Products : IsDropped(p) /\ d \in DecideDropped(p, listing[p])
      BY <1>2, <2>2
  <2> QED BY <1>3, <2>1, <2>2 DEF Decisions, Candidates
<1> QED BY <1>3

-----------------------------------------------------------------------------
(* Rows and jobs. *)

LEMMA Fields ==
    /\ Snapshot.status = status /\ Snapshot.hashes = hashes /\ Snapshot.stock = stock
    /\ Snapshot.source = source /\ Snapshot.inFull = inFull /\ Snapshot.missing = missing
BY DEF Snapshot

LEMMA SessionTyped ==
    ASSUME TypeOK
    PROVE  /\ status \in [Files -> Statuses] /\ hashes \subseteq Files \X {"partial", "whole"}
           /\ stock \in [Products -> Stock \cup {NoQty}] /\ source \in [Products -> 0..MaxFile]
           /\ inFull \in [Products -> BOOLEAN] /\ missing \in [Products -> Nat]
BY DEF TypeOK, Snapshot, Stores

LEMMA JobTyped ==
    ASSUME TypeOK
    PROVE  /\ job.phase \in {"idle", "fetch", "parse", "decide", "send"}
           /\ job.force \in BOOLEAN /\ job.halted \in BOOLEAN
           /\ job.todo \subseteq Files /\ job.fetched \subseteq Files /\ job.read \subseteq Files
           /\ job.batch \subseteq Quantities
BY DEF TypeOK, Jobs, Quantities

LEMMA FeedTyped ==
    ASSUME TypeOK, NEW f \in Files
    PROVE  /\ feed[f].kind \in {"full", "delta"} /\ feed[f].rows \in [Products -> Stock \cup {NoQty}]
           /\ feed[f].header \in BOOLEAN /\ feed[f].text \in Files
BY DEF TypeOK, Feeds

LEMMA OmittingFinite ==
    ASSUME NEW s, NEW p
    PROVE  IsFiniteSet(Omitting(s, p)) /\ Cardinality(Omitting(s, p)) \in Nat
<1>1. Omitting(s, p) \subseteq Files BY DEF Omitting
<1>2. IsFiniteSet(Omitting(s, p)) BY <1>1, FilesAreFinite, FS_Subset
<1> QED BY <1>2, FS_CardinalityType

LEMMA IdleTyped ==
    /\ IdleJob \in Jobs /\ IdleJob.phase = "idle" /\ IdleJob.todo = {} /\ IdleJob.fetched = {}
    /\ IdleJob.read = {} /\ IdleJob.batch = {} /\ IdleJob.force = FALSE
BY DEF IdleJob, Jobs

LEMMA InitKeeps == Init => IInv
<1> SUFFICES ASSUME Init PROVE IInv OBVIOUS
<1>1. Snapshot \in Stores
  <2>1. /\ status \in [Files -> Statuses] /\ hashes = {} /\ stock \in [Products -> Stock \cup {NoQty}]
        /\ source \in [Products -> 0..MaxFile] /\ inFull \in [Products -> BOOLEAN]
        /\ missing \in [Products -> Nat]
      BY FileAssumption DEF Init, Statuses
  <2> QED BY <2>1 DEF Snapshot, Stores
<1>2. feed \in [Files -> Feeds]
  <2>1. ASSUME NEW f \in Files PROVE NoFeed \in Feeds
      BY FileAssumption DEF NoFeed, Feeds, Files
  <2> QED BY <2>1 DEF Init
<1>3. TypeOK
  <2>1. listing \in [Products -> Nat] /\ amazon \in [Products -> Nat] BY StockAssumption DEF Init
  <2>2. server \in [Files -> {"absent", "partial", "whole", "gone"}] /\ faults \in 0..MaxFaults
      BY FileAssumption DEF Init
  <2> HIDE DEF Snapshot
  <2> QED BY <1>1, <1>2, <2>1, <2>2, IdleTyped DEF Init, TypeOK
<1>4. Sound(Snapshot)
  <2>1. \A f \in Files : Snapshot.status[f] = "new" BY Fields DEF Init
  <2>2. \A p \in Products : Snapshot.missing[p] = 0 BY Fields DEF Init
  <2> QED BY <2>1, <2>2, OmittingFinite DEF Sound, Known, Distinct, Stocked, Counted
<1>5. Queued /\ Fetched /\ ReadIsParsed /\ DropHasFullFeed
    BY IdleTyped DEF Init, Queued, Fetched, ReadIsParsed, DropHasFullFeed
<1> QED BY <1>3, <1>4, <1>5 DEF IInv, Init

-----------------------------------------------------------------------------
(* The vendor. *)

Untouched == \A f \in Files : server[f] # "absent" => server'[f] # "absent" /\ feed'[f] = feed[f]

\* What rows and runs hold on to are files that were there; the vendor does not rewrite them.
LEMMA VendorKeeps ==
    ASSUME IInv, TypeOK', Untouched, UNCHANGED <<session, db, job>>
    PROVE  IInv'
<1>1. UNCHANGED Snapshot BY DEF Snapshot, session
<1>2. \A f \in Files : Snapshot.status[f] = "parsed" \/ db.status[f] = "parsed"
                       => feed'[f] = feed[f] /\ server'[f] # "absent" /\ Mentioned(f)' = Mentioned(f)
    BY DEF IInv, Sound, Known, Untouched, Mentioned
<1>3. /\ \A p \in Products : Omitting(Snapshot, p)' = Omitting(Snapshot, p)
      /\ \A p \in Products : Omitting(db, p)' = Omitting(db, p)
    BY <1>1, <1>2 DEF Omitting
<1>4. Known(Snapshot)' /\ Known(db)' BY <1>1, <1>2 DEF IInv, Sound, Known
<1>5. Distinct(Snapshot)' /\ Distinct(db)' BY <1>1, <1>2 DEF IInv, Sound, Distinct
<1>6. Stocked(Snapshot)' /\ Stocked(db)' BY <1>1, <1>2 DEF IInv, Sound, Stocked
<1>7. Counted(Snapshot)' /\ Counted(db)' BY <1>1, <1>3 DEF IInv, Sound, Counted
<1>8. Queued' BY DEF IInv, Queued, Untouched, session, TypeOK, Jobs
<1>9. Fetched'
  <2>1. \A f \in Files : f \in job.fetched \/ status[f] = "parsed" => feed'[f] = feed[f] /\ server'[f] # "absent"
      BY <1>2, Fields DEF IInv, Fetched, Untouched
  <2> QED BY <2>1, JobTyped DEF IInv, Fetched, session
<1>10. ReadIsParsed' BY DEF IInv, ReadIsParsed, session
<1>11. DropHasFullFeed'
  <2>1. \A f \in ParsedFull : f \in ParsedFull' /\ Mentioned(f)' = Mentioned(f)
      BY <1>2, Fields DEF ParsedFull, session
  <2> QED BY <2>1 DEF IInv, DropHasFullFeed
<1> QED BY <1>4, <1>5, <1>6, <1>7, <1>8, <1>9, <1>10, <1>11 DEF IInv, Sound

LEMMA PublishKeeps ==
    ASSUME IInv, NEW f \in Files, Publish(f)
    PROVE  IInv'
<1>1. PICK kind \in {"full", "delta"}, rows \in [Products -> Stock \cup {NoQty}], header \in BOOLEAN,
           same \in SUBSET Files :
         \E text \in {feed[g].text : g \in same} \cup {f} :
            feed' = [feed EXCEPT ![f] = [kind |-> kind, rows |-> rows, header |-> header,
                                         text |-> text]]
  <2>1. PICK kind \in {"full", "delta"}, rows \in [Products -> Stock \cup {NoQty}], header \in BOOLEAN :
          /\ \E p \in Products : rows[p] # NoQty
          /\ header \/ BadHeaders
          /\ LET same == {g \in Files : /\ server[g] # "absent" /\ feed[g].kind = kind
                                       /\ feed[g].rows = rows /\ feed[g].header = header}
             IN  \E text \in {feed[g].text : g \in same} \cup {f} :
                    feed' = [feed EXCEPT ![f] = [kind |-> kind, rows |-> rows, header |-> header,
                                                 text |-> text]]
      BY Zenon DEF Publish
  <2> DEFINE same == {g \in Files : /\ server[g] # "absent" /\ feed[g].kind = kind
                                    /\ feed[g].rows = rows /\ feed[g].header = header}
  <2>2. \E text \in {feed[g].text : g \in same} \cup {f} :
            feed' = [feed EXCEPT ![f] = [kind |-> kind, rows |-> rows, header |-> header,
                                         text |-> text]]
      BY <2>1
  <2>3. same \in SUBSET Files OBVIOUS
  <2> HIDE DEF same
  <2> QED BY <2>2, <2>3
<1>2. PICK text \in Files : feed' = [feed EXCEPT ![f] = [kind |-> kind, rows |-> rows,
                                                          header |-> header, text |-> text]]
  <2>1. \A g \in Files : feed[g].text \in Files BY FeedTyped DEF IInv
  <2> QED BY <1>1, <2>1
<1>3. feed' \in [Files -> Feeds] /\ \A g \in Files \ {f} : feed'[g] = feed[g]
  <2>1. [kind |-> kind, rows |-> rows, header |-> header, text |-> text] \in Feeds BY DEF Feeds
  <2>2. feed \in [Files -> Feeds] BY DEF IInv, TypeOK
  <2> QED BY <1>2, <2>1, <2>2
<1>4. PICK form \in {"partial", "whole"} : server' = [server EXCEPT ![f] = form] BY DEF Publish
<1>5. /\ server' \in [Files -> {"absent", "partial", "whole", "gone"}] /\ server'[f] # "absent"
      /\ \A g \in Files \ {f} : server'[g] = server[g]
    BY <1>4 DEF IInv, TypeOK
<1>6. server[f] = "absent" /\ UNCHANGED <<session, db, job, shop, faults>> BY DEF Publish
<1>7. TypeOK' BY <1>3, <1>5, <1>6 DEF IInv, TypeOK, Snapshot, session, shop
<1>8. Untouched BY <1>3, <1>5, <1>6 DEF Untouched
<1> QED BY <1>6, <1>7, <1>8, VendorKeeps

LEMMA ServerKeeps ==
    ASSUME IInv, NEW f \in Files, Completes(f) \/ Expires(f)
    PROVE  IInv'
<1>1. /\ server' \in [Files -> {"absent", "partial", "whole", "gone"}]
      /\ \A g \in Files : server[g] # "absent" => server'[g] # "absent"
    BY DEF Completes, Expires, IInv, TypeOK
<1>2. UNCHANGED <<feed, session, db, job, shop, faults>> BY DEF Completes, Expires
<1>3. TypeOK' BY <1>1, <1>2 DEF IInv, TypeOK, Snapshot, session, shop
<1>4. Untouched BY <1>1, <1>2 DEF Untouched
<1> QED BY <1>2, <1>3, <1>4, VendorKeeps

-----------------------------------------------------------------------------
(* Starting a run, refreshing, losing it all. *)

\* Files and rows are as they were.
LEMMA SameRows ==
    ASSUME IInv, UNCHANGED <<vendor, session>>
    PROVE  Sound(Snapshot)'
BY DEF IInv, Snapshot, vendor, session, Sound, Known, Distinct, Stocked, Counted, Omitting, Mentioned

LEMMA SameCommitted ==
    ASSUME IInv, UNCHANGED <<vendor, db>>
    PROVE  Sound(db)'
BY DEF IInv, vendor, Sound, Known, Distinct, Stocked, Counted, Omitting, Mentioned

LEMMA RunStartKeeps ==
    ASSUME IInv, NEW force \in BOOLEAN, RunStart(force)
    PROVE  IInv'
<1> DEFINE todo == {f \in Files : server[f] \in {"partial", "whole"} /\ ~Handled(f)}
<1>1. /\ job' = [IdleJob EXCEPT !.phase = "fetch", !.force = force, !.todo = todo]
      /\ UNCHANGED <<vendor, session, db, shop, faults>>
    BY DEF RunStart
<1>2. todo \subseteq Files /\ \A f \in todo : server[f] # "absent" /\ status[f] # "parsed"
    BY DEF Handled
<1> HIDE DEF todo
<1>3. /\ job' \in Jobs /\ job'.phase = "fetch" /\ job'.todo = todo /\ job'.fetched = {}
      /\ job'.read = {}
    BY <1>1, <1>2 DEF IdleJob, Jobs
<1>4. TypeOK' BY <1>1, <1>3 DEF IInv, TypeOK, Snapshot, session, shop, vendor
<1>5. Queued' /\ Fetched' /\ ReadIsParsed' /\ DropHasFullFeed'
    BY <1>1, <1>2, <1>3 DEF Queued, Fetched, ReadIsParsed, DropHasFullFeed, vendor, session
<1> QED BY <1>1, <1>4, <1>5, SameRows, SameCommitted DEF IInv

\* A job that is idle asks nothing of the rows.
LEMMA IdleKeeps ==
    ASSUME job' = IdleJob
    PROVE  Queued' /\ Fetched' /\ ReadIsParsed' /\ DropHasFullFeed'
BY IdleTyped DEF Queued, Fetched, ReadIsParsed, DropHasFullFeed

LEMMA RefreshKeeps ==
    ASSUME IInv, Refresh
    PROVE  IInv'
<1>1. TypeOK' BY DEF Refresh, IInv, TypeOK, Snapshot, session, vendor
<1>2. Queued' /\ Fetched' /\ ReadIsParsed' /\ DropHasFullFeed'
    BY DEF Refresh, IInv, Queued, Fetched, ReadIsParsed, DropHasFullFeed, session, vendor,
           ParsedFull, Mentioned
<1> QED BY <1>1, <1>2, SameRows, SameCommitted DEF Refresh, IInv

LEMMA CrashKeeps ==
    ASSUME IInv, Crash
    PROVE  IInv'
<1>1. /\ job' = IdleJob /\ UNCHANGED <<vendor, db, shop>>
      /\ status' = db.status /\ hashes' = db.hashes /\ stock' = db.stock
      /\ source' = db.source /\ inFull' = db.inFull /\ missing' = db.missing
      /\ faults' \in 0..MaxFaults
    BY FileAssumption DEF Crash, IInv, TypeOK
<1>2. Snapshot' = db BY <1>1 DEF Snapshot, IInv, TypeOK, Stores
<1>3. TypeOK' BY <1>1, <1>2, IdleTyped DEF IInv, TypeOK, vendor, shop
<1>4. Sound(db)' BY <1>1, SameCommitted
<1>5. Sound(Snapshot)'
    BY <1>1, <1>2, <1>4 DEF Sound, Known, Distinct, Stocked, Counted, Omitting
<1> QED BY <1>1, <1>3, <1>4, <1>5, IdleKeeps DEF IInv

-----------------------------------------------------------------------------
(* Fetching. *)

\* The file a run is about to fetch is there, and has been neither read nor fetched.
LEMMA NextIsQueued ==
    ASSUME IInv, NEW f \in Files, job.todo # {}, f = Oldest(job.todo)
    PROVE  f \in job.todo /\ server[f] # "absent" /\ status[f] # "parsed" /\ f \notin job.fetched
<1>1. f \in job.todo BY OldestIsIn, JobTyped DEF IInv
<1> QED BY <1>1 DEF IInv, Queued

\* To know more bytes does no harm.
LEMMA SoundWithMoreBytes ==
    ASSUME IInv, UNCHANGED <<vendor, stock, missing>>, hashes \subseteq hashes',
           \A f \in Files : status'[f] = "parsed" <=> status[f] = "parsed"
    PROVE  Sound(Snapshot)'
<1>1. Known(Snapshot)' BY Fields DEF IInv, Sound, Known, Snapshot, vendor
<1>2. Distinct(Snapshot)' BY Fields DEF IInv, Sound, Distinct, Snapshot, vendor
<1>3. Stocked(Snapshot)' BY Fields DEF IInv, Sound, Stocked, Snapshot, vendor, Mentioned
<1>4. \A p \in Products : Omitting(Snapshot, p)' = Omitting(Snapshot, p)
    BY DEF Omitting, Snapshot, vendor, Mentioned
<1>5. Counted(Snapshot)' BY <1>4 DEF IInv, Sound, Counted, Snapshot
<1> QED BY <1>1, <1>2, <1>3, <1>5 DEF Sound

LEMMA FetchKeeps ==
    ASSUME IInv, NEW f \in Files, Fetch(f)
    PROVE  IInv'
<1> DEFINE bytes == <<feed[f].text, server[f]>>
           fresh == bytes \notin hashes
           taken == IF fresh /\ server[f] = "whole" THEN {f} ELSE {}
<1>1. /\ job.phase = "fetch" /\ job.todo # {} /\ f = Oldest(job.todo) /\ server[f] # "gone"
      /\ UNCHANGED <<vendor, stock, source, inFull, missing, db, shop, faults>>
    BY DEF Fetch
<1>2. f \in job.todo /\ server[f] # "absent" /\ status[f] # "parsed" /\ f \notin job.fetched
    BY <1>1, NextIsQueued
<1>3. server[f] \in {"partial", "whole"} /\ feed[f].text \in Files
    BY <1>1, <1>2, FeedTyped DEF IInv, TypeOK
<1>4. /\ status' \in [Files -> Statuses] /\ status'[f] # "parsed"
      /\ \A g \in Files \ {f} : status'[g] = status[g]
    BY <1>2, SessionTyped DEF Fetch, KnownText, IInv, Statuses
<1>5. hashes' = (IF fresh THEN hashes \cup {bytes} ELSE hashes) BY DEF Fetch, KnownText
<1>6. job' \in Jobs /\ job' = [job EXCEPT !.todo = job.todo \ {f}, !.fetched = job.fetched \cup taken]
  <2>1. job \in Jobs BY DEF IInv, TypeOK
  <2>2. CASE fresh /\ server[f] = "whole"
    <3>1. job' = [job EXCEPT !.todo = @ \ {f}, !.fetched = @ \cup {f}] BY <2>2 DEF Fetch, KnownText
    <3>2. job.fetched \cup {f} \in SUBSET Files BY <2>1 DEF Jobs
    <3> QED BY <2>1, <2>2, <3>1, <3>2 DEF Jobs
  <2>3. CASE ~(fresh /\ server[f] = "whole")
    <3>1. job' = [job EXCEPT !.todo = @ \ {f}] BY <2>3 DEF Fetch, KnownText
    <3> QED BY <2>1, <2>3, <3>1 DEF Jobs
  <2> QED BY <2>2, <2>3
<1>7. /\ job'.phase = "fetch" /\ job'.todo = job.todo \ {f} /\ job'.read = job.read
      /\ job'.fetched = job.fetched \cup taken
    BY <1>1, <1>6 DEF IInv, TypeOK, Jobs
<1>8. hashes' \subseteq Files \X {"partial", "whole"} /\ hashes \subseteq hashes'
    BY <1>3, <1>5, SessionTyped DEF IInv
<1>9. TypeOK'
  <2>1. Snapshot' \in Stores BY <1>1, <1>4, <1>8, SessionTyped DEF IInv, Snapshot, Stores
  <2> HIDE DEF Snapshot
  <2> QED BY <1>1, <1>6, <2>1 DEF IInv, TypeOK, vendor, shop
<1>10. Sound(Snapshot)' BY <1>1, <1>2, <1>4, <1>8, SoundWithMoreBytes DEF vendor
<1>11. Queued' BY <1>1, <1>2, <1>4, <1>7, JobTyped DEF IInv, Queued, vendor
<1>12. Fetched'
  <2> SUFFICES ASSUME NEW h \in job'.fetched
               PROVE  /\ server[h] # "absent" /\ status'[h] # "parsed"
                      /\ <<feed[h].text, "whole">> \in hashes'
                      /\ \A g \in Files \ {h} : g \in job'.fetched \/ status'[g] = "parsed"
                                                => feed[g].text # feed[h].text
      BY <1>1 DEF Fetched, vendor
  <2>1. \A g \in Files : status[g] = "parsed" => <<feed[g].text, "whole">> \in hashes
      BY Fields DEF IInv, Sound, Known
  <2>2. \A g \in Files : g \in job.fetched => <<feed[g].text, "whole">> \in hashes
      BY DEF IInv, Fetched
  <2>3. h \in Files /\ job.fetched \subseteq Files BY <1>7, JobTyped DEF IInv
  <2>4. CASE taken = {}
      BY <1>2, <1>4, <1>7, <1>8, <2>3, <2>4 DEF IInv, Fetched
  <2>5. CASE taken # {}
    <3>1. taken = {f} /\ bytes = <<feed[f].text, "whole">> /\ bytes \notin hashes /\ bytes \in hashes'
        BY <1>5, <2>5
    <3>2. \A g \in Files : g \in job.fetched \/ status[g] = "parsed" => feed[g].text # feed[f].text
        BY <2>1, <2>2, <3>1
    <3> HIDE DEF taken, bytes
    <3>3. CASE h = f BY <1>2, <1>4, <1>7, <3>1, <3>2, <3>3
    <3>4. CASE h # f
      <4>1. h \in job.fetched BY <1>7, <3>1, <3>4
      <4>2. \A g \in Files \ {h} : g \in job.fetched \/ status[g] = "parsed" => feed[g].text # feed[h].text
          BY <4>1 DEF IInv, Fetched
      <4>3. feed[f].text # feed[h].text BY <2>3, <3>2, <4>1
      <4> QED BY <1>2, <1>4, <1>7, <1>8, <2>3, <3>1, <3>4, <4>1, <4>2, <4>3 DEF IInv, Fetched
    <3> QED BY <3>3, <3>4
  <2> QED BY <2>4, <2>5
<1>13. ReadIsParsed' BY <1>2, <1>4, <1>7, JobTyped DEF IInv, ReadIsParsed
<1>14. DropHasFullFeed' BY <1>7 DEF DropHasFullFeed
<1> QED BY <1>1, <1>9, <1>10, <1>11, <1>12, <1>13, <1>14, SameCommitted DEF IInv

LEMMA FetchBreaksKeeps ==
    ASSUME IInv, NEW f \in Files, FetchBreaks(f)
    PROVE  IInv'
<1>1. /\ job.phase = "fetch" /\ job.todo # {} /\ f = Oldest(job.todo)
      /\ status' = [status EXCEPT ![f] = "quarantined"]
      /\ job' = [job EXCEPT !.todo = {}]
      /\ UNCHANGED <<vendor, hashes, stock, source, inFull, missing, db, shop>>
    BY DEF FetchBreaks
<1>2. status[f] # "parsed" /\ f \notin job.fetched BY <1>1, NextIsQueued
<1>3. /\ status' \in [Files -> Statuses]
      /\ \A g \in Files : status'[g] = "parsed" <=> status[g] = "parsed"
    BY <1>1, <1>2, SessionTyped DEF IInv, Statuses
<1>4. /\ job' \in Jobs /\ job'.phase = "fetch" /\ job'.todo = {} /\ job'.fetched = job.fetched
      /\ job'.read = job.read
    BY <1>1 DEF IInv, TypeOK, Jobs
<1>5. faults' \in 0..MaxFaults BY FileAssumption DEF FetchBreaks, IInv, TypeOK
<1>6. TypeOK'
  <2>1. Snapshot' \in Stores BY <1>1, <1>3, SessionTyped DEF IInv, Snapshot, Stores
  <2> HIDE DEF Snapshot
  <2> QED BY <1>1, <1>4, <1>5, <2>1 DEF IInv, TypeOK, vendor, shop
<1>7. Sound(Snapshot)' BY <1>1, <1>3, SoundWithMoreBytes
<1>8. Queued' /\ Fetched' /\ ReadIsParsed' /\ DropHasFullFeed'
    BY <1>1, <1>3, <1>4, JobTyped DEF IInv, Queued, Fetched, ReadIsParsed, DropHasFullFeed, vendor
<1> QED BY <1>1, <1>6, <1>7, <1>8, SameCommitted DEF IInv

LEMMA HangUpKeeps ==
    ASSUME IInv, HangUp
    PROVE  IInv'
<1>1. /\ job' = [job EXCEPT !.phase = "parse"] /\ UNCHANGED <<vendor, session, db, shop, faults>>
    BY DEF HangUp
<1>2. /\ job' \in Jobs /\ job'.phase = "parse" /\ job'.todo = job.todo /\ job'.fetched = job.fetched
      /\ job'.read = job.read
    BY <1>1 DEF IInv, TypeOK, Jobs
<1>3. TypeOK' BY <1>1, <1>2 DEF IInv, TypeOK, Snapshot, session, shop, vendor
<1>4. Queued' /\ Fetched' /\ ReadIsParsed' /\ DropHasFullFeed'
    BY <1>1, <1>2, JobTyped DEF IInv, Queued, Fetched, ReadIsParsed, DropHasFullFeed, vendor, session
<1> QED BY <1>1, <1>3, <1>4, SameRows, SameCommitted DEF IInv

-----------------------------------------------------------------------------
(* Parsing and storing. *)

\* A product in the file gets a row, and keeps it.
LEMMA UpsertTyped ==
    ASSUME TypeOK, NEW f \in Files, Upsert(f)
    PROVE  /\ stock' \in [Products -> Stock \cup {NoQty}]
           /\ source' \in [Products -> 0..MaxFile]
           /\ inFull' \in [Products -> BOOLEAN]
           /\ \A p \in Products : p \in Mentioned(f) => stock'[p] # NoQty
           /\ \A p \in Products : p \notin Mentioned(f) => stock'[p] = stock[p]
<1>1. /\ feed[f].rows \in [Products -> Stock \cup {NoQty}]
      /\ stock \in [Products -> Stock \cup {NoQty}] /\ source \in [Products -> 0..MaxFile]
    BY FeedTyped, SessionTyped
<1>2. f \in 0..MaxFile BY FileAssumption DEF Files
<1>3. inFull' \in [Products -> BOOLEAN] BY Zenon DEF Upsert
<1> QED BY <1>1, <1>2, <1>3 DEF Upsert, Mentioned

LEMMA MissingTyped ==
    ASSUME TypeOK, NEW f \in Files, NEW accepted \in BOOLEAN
    PROVE  /\ Missing(f, accepted) \in [Products -> Nat]
           /\ \A p \in Products :
                Missing(f, accepted)[p] <= IF accepted /\ feed[f].kind = "full" /\ p \notin Mentioned(f)
                                           THEN missing[p] + 1 ELSE missing[p]
BY SessionTyped DEF Missing, Counts

LEMMA ParseFileKeeps ==
    ASSUME IInv, NEW f \in Files, ParseFile(f)
    PROVE  IInv'
<1> DEFINE known == feed[f].header
           accepted == known /\ ~TooShort(f)
<1>1. /\ job.phase = "parse" /\ job.fetched # {} /\ f = Oldest(job.fetched)
      /\ UNCHANGED <<vendor, hashes, db, shop, faults>>
    BY DEF ParseFile
<1>2. /\ f \in job.fetched /\ server[f] # "absent" /\ status[f] # "parsed"
      /\ <<feed[f].text, "whole">> \in hashes
      /\ \A g \in Files \ {f} : g \in job.fetched \/ status[g] = "parsed" => feed[g].text # feed[f].text
    BY <1>1, OldestIsIn, JobTyped DEF IInv, Fetched
<1>3. status' = [status EXCEPT ![f] = IF accepted THEN "parsed" ELSE "quarantined"]
    BY DEF ParseFile
<1>4. /\ status' \in [Files -> Statuses] /\ (status'[f] = "parsed" <=> accepted)
      /\ \A g \in Files \ {f} : status'[g] = status[g]
    BY <1>3, SessionTyped DEF IInv, Statuses
<1>5. /\ job' \in Jobs /\ job'.phase = "parse" /\ job'.todo = job.todo
      /\ job'.fetched = job.fetched \ {f}
      /\ job'.read = (IF accepted THEN job.read \cup {f} ELSE job.read)
  <2>1. job \in Jobs BY DEF IInv, TypeOK
  <2>2. CASE accepted
    <3>1. job' = [job EXCEPT !.fetched = job.fetched \ {f}, !.read = job.read \cup {f}]
        BY <2>2 DEF ParseFile
    <3>2. job.fetched \ {f} \in SUBSET Files /\ job.read \cup {f} \in SUBSET Files BY <2>1 DEF Jobs
    <3> QED BY <1>1, <2>1, <2>2, <3>1, <3>2 DEF Jobs
  <2>3. CASE known /\ ~accepted
    <3>1. job' = [job EXCEPT !.fetched = job.fetched \ {f}, !.halted = TRUE] BY <2>3 DEF ParseFile
    <3> QED BY <1>1, <2>1, <2>3, <3>1 DEF Jobs
  <2>4. CASE ~known
    <3>1. job' = [job EXCEPT !.fetched = job.fetched \ {f}] BY <2>4 DEF ParseFile
    <3> QED BY <1>1, <2>1, <2>4, <3>1 DEF Jobs
  <2> QED BY <2>2, <2>3, <2>4
<1>6. /\ stock' \in [Products -> Stock \cup {NoQty}] /\ source' \in [Products -> 0..MaxFile]
      /\ inFull' \in [Products -> BOOLEAN]
      /\ \A p \in Products : accepted /\ p \in Mentioned(f) => stock'[p] # NoQty
      /\ \A p \in Products : stock[p] # NoQty => stock'[p] # NoQty
  <2>1. CASE known
    <3>1. Upsert(f) BY <2>1 DEF ParseFile
    <3> QED BY <3>1, UpsertTyped DEF IInv
  <2>2. CASE ~known
    <3>1. UNCHANGED <<stock, source, inFull>> BY <2>2 DEF ParseFile
    <3> QED BY <2>2, <3>1, SessionTyped DEF IInv
  <2> QED BY <2>1, <2>2
<1>7. /\ missing' \in [Products -> Nat]
      /\ \A p \in Products : missing'[p] <= IF accepted /\ feed[f].kind = "full" /\ p \notin Mentioned(f)
                                            THEN missing[p] + 1 ELSE missing[p]
  <2>1. CASE known
    <3> DEFINE enough == ~TooShort(f)
    <3>1. missing' = Missing(f, enough) BY <2>1 DEF ParseFile
    <3>2. enough \in BOOLEAN /\ (accepted <=> enough) BY <2>1
    <3> HIDE DEF enough, accepted
    <3>3. /\ Missing(f, enough) \in [Products -> Nat]
          /\ \A p \in Products :
               Missing(f, enough)[p] <= IF enough /\ feed[f].kind = "full" /\ p \notin Mentioned(f)
                                        THEN missing[p] + 1 ELSE missing[p]
        BY <3>2, MissingTyped DEF IInv
    <3> QED BY <3>1, <3>2, <3>3
  <2>2. CASE ~known
    <3>1. missing' = missing BY <2>2 DEF ParseFile
    <3> QED BY <2>2, <3>1, SessionTyped DEF IInv
  <2> QED BY <2>1, <2>2
<1> HIDE DEF accepted, known
<1>8. TypeOK'
  <2>1. hashes' \subseteq Files \X {"partial", "whole"} BY <1>1, SessionTyped DEF IInv
  <2>2. Snapshot' \in Stores BY <1>4, <1>6, <1>7, <2>1 DEF Snapshot, Stores
  <2> HIDE DEF Snapshot
  <2> QED BY <1>1, <1>5, <2>2 DEF IInv, TypeOK, vendor, shop
<1>9. \A g \in Files : status'[g] = "parsed" /\ g # f => status[g] = "parsed" BY <1>4
<1>10. Known(Snapshot)'
    BY <1>1, <1>2, <1>9 DEF IInv, Sound, Known, Snapshot, vendor
<1>11. Distinct(Snapshot)'
    BY <1>1, <1>2, <1>9 DEF IInv, Sound, Distinct, Snapshot, vendor
<1>12. Stocked(Snapshot)'
  <2> SUFFICES ASSUME NEW g \in Files, status'[g] = "parsed", NEW p \in Mentioned(g)
               PROVE  stock'[p] # NoQty
      BY <1>1 DEF Stocked, Snapshot, vendor, Mentioned
  <2>1. p \in Products BY DEF Mentioned
  <2>2. CASE g = f BY <1>4, <1>6, <2>1, <2>2
  <2>3. CASE g # f
    <3>1. stock[p] # NoQty BY <1>9, <2>3, Fields DEF IInv, Sound, Stocked
    <3> QED BY <1>6, <2>1, <3>1
  <2> QED BY <2>2, <2>3
<1>13. Counted(Snapshot)'
  <2> SUFFICES ASSUME NEW p \in Products
               PROVE  missing'[p] <= Cardinality(Omitting(Snapshot, p)')
      BY DEF Counted, Snapshot
  <2> DEFINE before == Omitting(Snapshot, p)
  <2>1. missing[p] <= Cardinality(before) BY Fields DEF IInv, Sound, Counted
  <2>2. IsFiniteSet(before) /\ Cardinality(before) \in Nat BY OmittingFinite
  <2>3. f \notin before BY <1>2 DEF Omitting, Snapshot
  <2>4. CASE accepted /\ feed[f].kind = "full" /\ p \notin Mentioned(f)
    <3>1. Omitting(Snapshot, p)' = before \cup {f}
        BY <1>1, <1>4, <2>4 DEF Omitting, Snapshot, vendor, Mentioned
    <3> HIDE DEF before
    <3>2. Cardinality(before \cup {f}) = Cardinality(before) + 1 BY <2>2, <2>3, FS_AddElement
    <3> QED BY <1>7, <2>1, <2>2, <2>4, <3>1, <3>2, SessionTyped DEF IInv
  <2>5. CASE ~(accepted /\ feed[f].kind = "full" /\ p \notin Mentioned(f))
    <3>1. Omitting(Snapshot, p)' = before
        BY <1>1, <1>2, <1>4, <2>5 DEF Omitting, Snapshot, vendor, Mentioned
    <3> HIDE DEF before
    <3> QED BY <1>7, <2>1, <2>2, <2>5, <3>1, SessionTyped DEF IInv
  <2> QED BY <2>4, <2>5
<1>14. Queued' BY <1>1, <1>2, <1>4, <1>5, JobTyped DEF IInv, Queued, vendor
<1>15. Fetched' BY <1>1, <1>2, <1>4, <1>5, JobTyped DEF IInv, Fetched, vendor
<1>16. ReadIsParsed' BY <1>2, <1>4, <1>5, JobTyped DEF IInv, ReadIsParsed
<1>17. DropHasFullFeed' BY <1>5 DEF DropHasFullFeed
<1> QED BY <1>1, <1>8, <1>10, <1>11, <1>12, <1>13, <1>14, <1>15, <1>16, <1>17, SameCommitted
        DEF IInv, Sound

LEMMA StoredKeeps ==
    ASSUME IInv, Stored
    PROVE  IInv'
<1>1. /\ db' = Snapshot /\ UNCHANGED <<vendor, session, shop, faults>>
      /\ job' = IF job.halted THEN IdleJob ELSE [job EXCEPT !.phase = "decide"]
    BY DEF Stored
<1>2. Snapshot' = Snapshot BY <1>1 DEF Snapshot, session
<1>3. job' \in Jobs
    BY <1>1, IdleTyped DEF IInv, TypeOK, Jobs
<1>4. TypeOK' BY <1>1, <1>2, <1>3 DEF IInv, TypeOK, vendor, shop
<1>5. Sound(Snapshot)' BY <1>1, SameRows
<1>6. Sound(db)' BY <1>1, <1>2, <1>5 DEF Sound, Known, Distinct, Stocked, Counted, Omitting
<1>7. Queued' /\ Fetched' /\ ReadIsParsed' /\ DropHasFullFeed'
  <2>1. CASE job.halted BY <1>1, <2>1, IdleKeeps
  <2>2. CASE ~job.halted
    <3>1. /\ job'.phase = "decide" /\ job'.todo = job.todo /\ job'.fetched = job.fetched
          /\ job'.read = job.read
        BY <1>1, <2>2 DEF IInv, TypeOK, Jobs
    <3> QED BY <1>1, <3>1, JobTyped DEF IInv, Queued, Fetched, ReadIsParsed, DropHasFullFeed, vendor, session
  <2> QED BY <2>1, <2>2
<1> QED BY <1>4, <1>5, <1>6, <1>7 DEF IInv

-----------------------------------------------------------------------------
(* Deciding and sending. *)

\* A run that may take dropped products off sale without being forced has read a full
\* feed, and a product that is dropped then was left out by one.
LEMMA DroppedWasOmitted ==
    ASSUME IInv, ~job.force, MayDrop, NEW p \in Products, IsDropped(p)
    PROVE  \E f \in ParsedFull : p \notin Mentioned(f)
<1>1. CASE missing[p] >= MissingThreshold
  <2>1. missing[p] <= Cardinality(Omitting(Snapshot, p)) BY Fields DEF IInv, Sound, Counted
  <2>2. missing[p] \in Nat /\ MissingThreshold \in Nat \ {0}
      BY SessionTyped, MissingAssumption DEF IInv
  <2>3. Cardinality(Omitting(Snapshot, p)) # 0 BY <1>1, <2>1, <2>2, OmittingFinite
  <2>4. Omitting(Snapshot, p) # {} BY <2>3, FS_EmptySet
  <2> QED BY <2>4, Fields DEF Omitting, ParsedFull
<1>2. CASE stock[p] = NoQty
  <2>1. PICK f \in job.read : feed[f].kind = "full" BY DEF MayDrop
  <2>2. f \in Files /\ status[f] = "parsed" BY JobTyped DEF IInv, ReadIsParsed
  <2>3. p \notin Mentioned(f) BY <1>2, <2>2, Fields DEF IInv, Sound, Stocked
  <2> QED BY <2>1, <2>2, <2>3 DEF ParsedFull
<1> QED BY <1>1, <1>2 DEF IsDropped

LEMMA DecideRunKeeps ==
    ASSUME IInv, DecideRun
    PROVE  IInv'
<1>1. /\ UNCHANGED <<vendor, session, db, shop, faults>> /\ job.phase = "decide"
      /\ \E batch \in ThisRun(Decisions) :
            job' = [job EXCEPT !.phase = "send", !.batch = batch] \/ job' = IdleJob
    BY DEF DecideRun
<1>2. PICK batch \in ThisRun(Decisions) :
          job' = [job EXCEPT !.phase = "send", !.batch = batch] \/ job' = IdleJob
    BY <1>1
<1>3. batch \subseteq Quantities
      /\ \A d \in batch : d.why = "dropped" => MayDrop /\ IsDropped(d.sku)
    BY LimitIsKept, DecisionsTyped DEF IInv
<1>4. CASE job' = IdleJob
  <2>1. TypeOK' BY <1>1, <1>4, IdleTyped DEF IInv, TypeOK, Snapshot, session, shop, vendor
  <2> QED BY <1>1, <1>4, <2>1, IdleKeeps, SameRows, SameCommitted DEF IInv
<1>5. CASE job' = [job EXCEPT !.phase = "send", !.batch = batch]
  <2>1. /\ job' \in Jobs /\ job'.phase = "send" /\ job'.batch = batch /\ job'.force = job.force
        /\ job'.todo = job.todo /\ job'.fetched = job.fetched /\ job'.read = job.read
      BY <1>3, <1>5 DEF IInv, TypeOK, Jobs, Quantities
  <2>2. TypeOK' BY <1>1, <2>1 DEF IInv, TypeOK, Snapshot, session, shop, vendor
  <2>3. Queued' /\ Fetched' /\ ReadIsParsed'
      BY <1>1, <2>1, JobTyped DEF IInv, Queued, Fetched, ReadIsParsed, vendor, session
  <2>4. DropHasFullFeed'
    <3>1. ASSUME ~job.force, NEW d \in batch, d.why = "dropped"
          PROVE  \E f \in ParsedFull : d.sku \notin Mentioned(f)
      <4>1. d.sku \in Products BY <1>3 DEF Quantities
      <4> QED BY <1>3, <3>1, <4>1, DroppedWasOmitted
    <3> QED BY <1>1, <2>1, <3>1 DEF DropHasFullFeed, ParsedFull, Mentioned, vendor, session
  <2> QED BY <1>1, <2>2, <2>3, <2>4, SameRows, SameCommitted DEF IInv
<1> QED BY <1>2, <1>4, <1>5

LEMMA SendKeeps ==
    ASSUME IInv, NEW taken \in SUBSET job.batch, NEW shown, Send(taken, shown), faults' \in 0..MaxFaults
    PROVE  IInv'
<1> DEFINE changed == {d.sku : d \in taken}
<1>1. /\ job' = IdleJob /\ UNCHANGED <<vendor, session, db>>
      /\ amazon' = [p \in Products |->
            IF p \in changed THEN LastOf({d \in taken : d.sku = p}).to ELSE amazon[p]]
      /\ listing' = [p \in Products |-> IF p \in shown THEN amazon'[p] ELSE listing[p]]
    BY DEF Send
<1>2. taken \subseteq Quantities BY JobTyped DEF IInv
<1>3. ASSUME NEW p \in changed PROVE LastOf({d \in taken : d.sku = p}).to \in Nat
  <2>1. {d \in taken : d.sku = p} \in SUBSET Quantities /\ {d \in taken : d.sku = p} # {} BY <1>2, <1>3
  <2>2. LastOf({d \in taken : d.sku = p}) \in Quantities BY <2>1, LastIsIn
  <2> QED BY <2>2 DEF Quantities
<1>4. amazon \in [Products -> Nat] /\ listing \in [Products -> Nat] BY DEF IInv, TypeOK
<1> HIDE DEF changed
<1>5. amazon' \in [Products -> Nat] BY <1>1, <1>3, <1>4
<1>6. listing' \in [Products -> Nat] BY <1>1, <1>4, <1>5
<1>7. TypeOK' BY <1>1, <1>5, <1>6, IdleTyped DEF IInv, TypeOK, Snapshot, session, vendor
<1> QED BY <1>1, <1>7, IdleKeeps, SameRows, SameCommitted DEF IInv

LEMMA SendsKeep ==
    ASSUME IInv, SendAll \/ SendAllShown \/ SendSome
    PROVE  IInv'
<1>1. CASE SendAll \/ SendAllShown BY <1>1, SendKeeps DEF SendAll, SendAllShown, IInv, TypeOK
<1>2. CASE SendSome
  <2>1. PICK taken \in SUBSET job.batch : Send(taken, {d.sku : d \in taken}) BY <1>2 DEF SendSome
  <2>2. faults' \in 0..MaxFaults BY <1>2, FileAssumption DEF SendSome, IInv, TypeOK
  <2> QED BY <2>1, <2>2, SendKeeps
<1> QED BY <1>1, <1>2

-----------------------------------------------------------------------------
(* Every step, and the theorems. *)

LEMMA RunStepKeeps ==
    ASSUME IInv, RunStep
    PROVE  IInv'
<1>1. ASSUME NEW f \in Files, Fetch(f) \/ FetchBreaks(f) \/ ParseFile(f)
      PROVE  IInv'
    BY <1>1, FetchKeeps, FetchBreaksKeeps, ParseFileKeeps
<1>2. ASSUME HangUp \/ Stored \/ DecideRun \/ SendAll \/ SendAllShown \/ SendSome
      PROVE  IInv'
    BY <1>2, HangUpKeeps, StoredKeeps, DecideRunKeeps, SendsKeep
<1> QED BY <1>1, <1>2 DEF RunStep

LEMMA StepKeeps ==
    ASSUME IInv, [Next]_vars
    PROVE  IInv'
<1>1. CASE VendorStep BY <1>1, PublishKeeps, ServerKeeps DEF VendorStep
<1>2. CASE RunStep \/ Refresh \/ Crash BY <1>2, RunStepKeeps, RefreshKeeps, CrashKeeps
<1>3. CASE \E force \in BOOLEAN : RunStart(force) BY <1>3, RunStartKeeps
<1>4. CASE UNCHANGED vars
  <2>1. TypeOK' BY <1>4 DEF vars, vendor, session, shop, IInv, TypeOK, Snapshot
  <2>2. Untouched BY <1>4 DEF vars, vendor, Untouched
  <2> QED BY <1>4, <2>1, <2>2, VendorKeeps DEF vars
<1> QED BY <1>1, <1>2, <1>3, <1>4 DEF Next

LEMMA AlwaysIInv == Spec => []IInv
BY InitKeeps, StepKeeps, PTL DEF Spec

\* Rows, files, decisions and quantities have their types: no run writes down a product,
\* a quantity or a file that is none.  (_ingest, _decide)
THEOREM TypeCorrect == Spec => []TypeOK
<1>1. IInv => TypeOK BY DEF IInv
<1> QED BY <1>1, AlwaysIInv, PTL

\* The same bytes are never read under two names, however often they come, whether the
\* first file with them was refused, and wherever a run was lost.  (feed_files.content_sha256)
THEOREM BytesAreReadOnce == Spec => []NothingReadTwice
<1>1. IInv => NothingReadTwice BY Fields DEF IInv, Sound, Distinct, NothingReadTwice
<1> QED BY <1>1, AlwaysIInv, PTL

\* A product is counted as missing no more often than accepted full feeds left it out, for
\* any number of feeds, crashes and refused files.  (_mark_missing_from_full_feed)
THEOREM OnlyFullFeedsCount == Spec => []MissingIsCounted
<1>1. IInv => MissingIsCounted
  <2> SUFFICES ASSUME IInv, NEW p \in Products
               PROVE  missing[p] <= Cardinality({f \in ParsedFull : p \notin Mentioned(f)})
      BY DEF MissingIsCounted
  <2>1. Omitting(Snapshot, p) = {f \in ParsedFull : p \notin Mentioned(f)}
      BY Fields DEF Omitting, ParsedFull
  <2> QED BY <2>1, Fields DEF IInv, Sound, Counted
<1> QED BY <1>1, AlwaysIInv, PTL

\* No product is taken off sale as dropped by a run nobody forced unless an accepted full
\* feed left it out: neither a delta, a refused feed nor a lost run is enough.
\* (_decide, allow_dropped)
THEOREM DropsAreJustified == Spec => []DropHasFullFeed
<1>1. IInv => DropHasFullFeed BY DEF IInv
<1> QED BY <1>1, AlwaysIInv, PTL
=============================================================================
