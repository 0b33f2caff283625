------------------------------ MODULE Matching ------------------------------
(***************************************************************************)
(* Which listing the vendor's stock of a barcode decides on.  A run takes  *)
(* the barcodes of the listings in scope, looks up the vendor's stock of   *)
(* each, matches the barcode to a listing, and decides; after a full feed  *)
(* it also takes the listings off sale whose barcode the vendor does not   *)
(* carry.  The operator edits manual mappings and the never-touch list     *)
(* meanwhile, and a refresh renews what is known of the listings.          *)
(*                                                                         *)
(* The Products of Decision are the SKUs of the account here, numbered in  *)
(* the order of their names.  How files are read is VendorSync's matter,   *)
(* and how changes are sent PushLifecycle's.                               *)
(***************************************************************************)
EXTENDS Decision

CONSTANTS
    Codes,      \* products of the world, by the 13 digits of their barcode
    Zeroed,     \* those whose 13 digits begin with a zero
    NoSku,
    NoBarcode,
    BarcodeOf,  \* the barcode in a SKU, or NoBarcode
    Built,      \* the SKU that the client's formula makes of a barcode
    InScope,    \* SKUs whose prefix is in sku_prefixes_in_scope
    Stock,      \* the stock figures the vendor writes
    Reports,    \* what a catalogue report may say of a SKU
    Mappings,   \* manual mappings the operator may enter
    Shunned     \* SKUs the operator may put on the never-touch list

\* A product's barcode has a canonical form of 13 digits and one of 14.
Barcodes == Codes \X {13, 14}

Entries == [present: BOOLEAN, active: BOOLEAN, quantity: Nat \cup {NoQty}]

ASSUME SkuAssumption == Products \subseteq Nat /\ NoSku \notin Products /\ InScope \subseteq Products
ASSUME BarcodeAssumption == /\ NoBarcode \notin Barcodes
                            /\ BarcodeOf \in [Products -> Barcodes \cup {NoBarcode}]
                            /\ Built \in [Barcodes -> Products \cup {NoSku}]
ASSUME InputAssumption == /\ Stock \subseteq Nat
                          /\ Reports \in [Products -> SUBSET Entries]
                          /\ Mappings \subseteq Barcodes \X (Products \cup {NoSku})
                          /\ Shunned \subseteq Products

VARIABLES
    row,        \* vendor_products.stock; NoQty where there is no row
    gone,       \* barcodes missing from enough full feeds
    listing,    \* amazon_listings
    flagged,    \* SKUs with amazon_listings.blacklisted
    neverTouch, \* the setting blacklisted_skus
    override,   \* active rows of sku_overrides
    unmatched,  \* barcodes in unmapped_barcodes
    job,        \* the run: its phase, whether it may drop, the settings it began with
    decisions   \* what the last step decided

known == <<row, gone>>
operated == <<neverTouch, override>>
vars == <<known, listing, flagged, operated, unmatched, job, decisions>>

TypeOK ==
    /\ row \in [Barcodes -> Stock \cup {NoQty}]
    /\ gone \subseteq Barcodes
    /\ listing \in [Products -> Entries]
    /\ flagged \subseteq Products
    /\ neverTouch \subseteq Products
    /\ override \in [Barcodes -> Products \cup {NoSku}]
    /\ unmatched \subseteq Barcodes
    /\ job \in [phase: {"idle", "decide"}, dropping: BOOLEAN, never: SUBSET Products]
    /\ decisions \subseteq [sku: Products, from: Nat, to: Nat, why: {"stock", "dropped"}]

Init ==
    /\ row = [b \in Barcodes |-> NoQty]
    /\ gone = {}
    /\ listing \in [Products -> {[present |-> FALSE, active |-> FALSE, quantity |-> NoQty]}]
    /\ flagged = {}
    /\ neverTouch = {}
    /\ override = [b \in Barcodes |-> NoSku]
    /\ unmatched = {}
    /\ job = [phase |-> "idle", dropping |-> FALSE, never |-> {}]
    /\ decisions = {}

-----------------------------------------------------------------------------
(* The mapper. *)

\* A mutant of Index: listings of other suppliers are found by their SKU too.
IndexAll == {s \in Products : listing[s].present}

\* CatalogIndex: listings out of scope are not in it at all.
Index == {s \in InScope : listing[s].present}

ByBarcode(b) == {s \in Index : BarcodeOf[s] = b}

Fit(s) == listing[s].active /\ s \notin Untouchable /\ s \notin flagged

\* A mutant of Worse: only the name decides.
WorseByName(s, t) == s > t

\* The key of _pick: active, then not FBA, then not never-touch.
Weight(s) ==
    (IF listing[s].active THEN 0 ELSE 4) + (IF s \in Untouchable THEN 2 ELSE 0)
                                         + (IF s \in flagged THEN 1 ELSE 0)

\* Ties break on the name.
Worse(s, t) == Weight(s) > Weight(t) \/ (Weight(s) = Weight(t) /\ s > t)

Pick(twins) == CHOOSE s \in twins : \A t \in twins : ~Worse(s, t)

\* The other widths match_candidates tries: a zero in front, and the digits
\* without their leading zeros, which are 13 only if one zero led.
Variants(b) ==
    IF b[2] = 13 THEN {<<b[1], 14>>} ELSE {<<c, 13>> : c \in {b[1]} \ Zeroed}

VariantHits(b) == UNION {ByBarcode(v) : v \in Variants(b)}

\* Mapper.match.  A mapping to a SKU that is not in the index is passed over.
Match(b) ==
    IF override[b] \in Index THEN override[b]
    ELSE IF ByBarcode(b) # {} THEN Pick(ByBarcode(b))
    ELSE IF VariantHits(b) # {} THEN Pick(VariantHits(b))
    ELSE IF Built[b] \in Index THEN Built[b]
    ELSE NoSku

-----------------------------------------------------------------------------
(* The run. *)

\* A mutant of Candidates: every barcode the vendor carries is decided.
CandidatesAll == {b \in Barcodes : row[b] # NoQty}

\* Every run re-decides the catalogue, by the barcodes of its listings.
Candidates == {BarcodeOf[s] : s \in Index} \ {NoBarcode}

Stocked == {b \in Candidates : row[b] # NoQty}

\* The never-touch list counts as it was when the run began.
FromStock(b) ==
    LET s == Match(b) IN
    IF s = NoSku THEN {}
    ELSE IF ~Fit(s) \/ s \in job.never THEN {}
    ELSE Decide(s, row[b], listing[s].quantity)

\* Missing from full feeds, or in no feed at all.
Lost(s) == BarcodeOf[s] # NoBarcode /\ (BarcodeOf[s] \in gone \/ BarcodeOf[s] \notin Stocked)

\* decide_dropped knows the never-touch list only from the last refresh.
Dropped == UNION {DecideDropped(s, listing[s].quantity) : s \in {t \in Index : Lost(t) /\ Fit(t)}}

Decisions == (UNION {FromStock(b) : b \in Stocked}) \cup (IF job.dropping THEN Dropped ELSE {})

\* The vendor's files, if any: what a full feed leaves out may have been left
\* out often enough.  The operator may ask for a full reconcile without a feed.
Ingest ==
    /\ job.phase = "idle"
    /\ \E full, forced \in BOOLEAN, rows \in [Barcodes -> Stock \cup {NoQty}] :
          LET mentioned == {b \in Barcodes : rows[b] # NoQty}
              absent == {b \in Barcodes \ mentioned : row[b] # NoQty}
          IN  /\ full => mentioned # {}
              /\ row' = [b \in Barcodes |-> IF b \in mentioned THEN rows[b] ELSE row[b]]
              /\ \E out \in SUBSET absent :
                    /\ ~full => out = {}
                    /\ gone' = (gone \ mentioned) \cup out
              /\ job' = [phase |-> "decide", dropping |-> full \/ forced, never |-> neverTouch]
    /\ decisions' = {}
    /\ UNCHANGED <<listing, flagged, operated, unmatched>>

\* _decide, and the sending of some of what it decided: limit, gates, mode and
\* Amazon may keep the rest back.
DecideRun ==
    /\ job.phase = "decide"
    /\ decisions' = Decisions
    /\ unmatched' = unmatched \cup {b \in Stocked : Match(b) = NoSku /\ row[b] > 0}
    /\ \E sent \in SUBSET Decisions :
          listing' = [s \in Products |->
              LET mine == {d \in sent : d.sku = s} IN
              IF mine = {} THEN listing[s] ELSE [listing[s] EXCEPT !.quantity = LastOf(mine).to]]
    /\ job' = [job EXCEPT !.phase = "idle"]
    /\ UNCHANGED <<known, flagged, operated>>

-----------------------------------------------------------------------------
(* The catalogue and the operator. *)

\* The report renews every SKU it mentions, and the flags from the setting.
Refresh ==
    /\ job.phase = "idle"
    /\ listing' \in [Products -> UNION {Reports[s] : s \in Products}]
    /\ \A s \in Products : listing'[s] \in Reports[s]
    /\ flagged' = {s \in Products : IF listing'[s].present THEN s \in neverTouch ELSE s \in flagged}
    /\ decisions' = {}
    /\ UNCHANGED <<known, operated, unmatched, job>>

\* add_override: one mapping per barcode.
AddOverride ==
    /\ \E m \in Mappings : override[m[1]] # m[2] /\ override' = [override EXCEPT ![m[1]] = m[2]]
    /\ decisions' = {}
    /\ UNCHANGED <<known, listing, flagged, neverTouch, unmatched, job>>

DeleteOverride ==
    /\ \E b \in Barcodes : override[b] # NoSku /\ override' = [override EXCEPT ![b] = NoSku]
    /\ decisions' = {}
    /\ UNCHANGED <<known, listing, flagged, neverTouch, unmatched, job>>

SaveNeverTouch ==
    /\ neverTouch' \in SUBSET Shunned \ {neverTouch}
    /\ decisions' = {}
    /\ UNCHANGED <<known, listing, flagged, override, unmatched, job>>

Next == Ingest \/ DecideRun \/ Refresh \/ AddOverride \/ DeleteOverride \/ SaveNeverTouch

Spec == Init /\ [][Next]_vars

-----------------------------------------------------------------------------
(* Properties. *)

\* Only a present, active, merchant-fulfilled listing in scope is ever changed,
\* whatever SKU a manual mapping names; and the vendor's stock never changes a
\* listing that was on the never-touch list when the run began.
\* (CatalogIndex, Mapper._finish, DecisionEngine.decide)
OnlyOursIsTouched ==
    \A d \in decisions :
        /\ d.sku \in InScope \ Untouchable
        /\ listing[d.sku].present /\ listing[d.sku].active
        /\ d.why = "stock" => d.sku \notin job.never

\* Two barcodes never decide on one listing, though a listing can be reached by
\* either width of its barcode, unless a mapping leads there.  (_decide, Mapper.match)
OneDecisionPerListing ==
    (\A b \in Barcodes : override[b] = NoSku) =>
        \A d, e \in decisions : d.sku = e.sku /\ d.why = e.why => d = e

\* A listing that must not be changed never hides a twin of the same barcode
\* that may be.  (Mapper._pick)
FitTwinIsPicked ==
    \A b \in Barcodes : override[b] \notin Index =>
        ((\E s \in ByBarcode(b) : Fit(s)) => Fit(Match(b)))
=============================================================================
