--------------------------- MODULE Matching_proofs ---------------------------
(***************************************************************************)
(* What Matching promises for every account, every vendor and every set of *)
(* mappings.                                                               *)
(***************************************************************************)
EXTENDS Matching, WellFoundedInduction, TLAPS

-----------------------------------------------------------------------------
(* Choosing one of several. *)

LEMMA LeastOf ==
    ASSUME NEW T \in SUBSET Nat, T # {}
    PROVE  \E m \in T : \A n \in T : m <= n
<1>1. IsWellFoundedOn(OpToRel(<, Nat), Nat) BY NatLessThanWellFounded
<1>2. PICK m \in T : \A n \in T : <<n, m>> \notin OpToRel(<, Nat) BY <1>1, WFMin
<1>3. \A n \in T : ~(n < m) BY <1>2 DEF OpToRel
<1> QED BY <1>3

\* _pick returns one of the listings it was given, and none is better.
LEMMA PickIsBest ==
    ASSUME NEW twins \in SUBSET Products, twins # {}
    PROVE  Pick(twins) \in twins /\ \A t \in twins : ~Worse(Pick(twins), t)
<1> DEFINE W == {Weight(s) : s \in twins}
<1>1. W \in SUBSET Nat /\ W # {} BY DEF Weight
<1>2. PICK w \in W : \A v \in W : w <= v
  <2> HIDE DEF W
  <2> QED BY <1>1, LeastOf
<1> DEFINE B == {s \in twins : Weight(s) = w}
<1>3. B \in SUBSET Nat /\ B # {} BY <1>2, SkuAssumption
<1>4. PICK m \in B : \A n \in B : m <= n
  <2> HIDE DEF B
  <2> QED BY <1>3, LeastOf
<1>5. \A t \in twins : ~Worse(m, t)
  <2> SUFFICES ASSUME NEW t \in twins PROVE ~Worse(m, t) OBVIOUS
  <2>1. Weight(m) = w /\ m \in Nat BY <1>3, <1>4
  <2>2. w \in Nat /\ Weight(t) \in Nat /\ t \in Nat BY <1>1, <1>2, SkuAssumption DEF Weight
  <2>3. w <= Weight(t) BY <1>2
  <2>4. CASE Weight(t) = w
    <3>1. m <= t BY <1>4, <2>4
    <3> QED BY <2>1, <2>2, <2>4, <3>1 DEF Worse
  <2>5. CASE Weight(t) # w BY <2>1, <2>2, <2>3, <2>5 DEF Worse
  <2> QED BY <2>4, <2>5
<1>6. m \in twins BY <1>4
<1> QED BY <1>5, <1>6 DEF Pick

\* A listing that may be changed is picked if there is one.  (Mapper._pick)
THEOREM PickedIsFit ==
    ASSUME NEW twins \in SUBSET Products, NEW s \in twins, Fit(s)
    PROVE  Fit(Pick(twins))
<1>1. Pick(twins) \in twins /\ ~Worse(Pick(twins), s) BY PickIsBest
<1>2. Weight(s) = 0 BY DEF Fit, Weight
<1>3. Weight(Pick(twins)) = 0 BY <1>1, <1>2 DEF Worse, Weight
<1> QED BY <1>3 DEF Fit, Weight

\* What a barcode is matched to is a listing in scope that is there.  (Mapper.match)
THEOREM MatchIsInScope ==
    ASSUME NEW b \in Barcodes, Match(b) # NoSku
    PROVE  Match(b) \in Index
<1>1. Index \subseteq Products BY SkuAssumption DEF Index
<1>2. ByBarcode(b) \subseteq Index /\ VariantHits(b) \subseteq Index BY DEF ByBarcode, VariantHits
<1>3. ByBarcode(b) # {} => Pick(ByBarcode(b)) \in Index BY <1>1, <1>2, PickIsBest
<1>4. VariantHits(b) # {} => Pick(VariantHits(b)) \in Index BY <1>1, <1>2, PickIsBest
<1> QED BY <1>3, <1>4 DEF Match

\* Unless a mapping leads elsewhere, the barcode of a listing is matched to a
\* listing of the very same barcode.  (_decide, Mapper.match)
LEMMA CandidateMatches ==
    ASSUME NEW b \in Candidates
    PROVE  /\ Match(b) \in Index
           /\ override[b] \notin Index => BarcodeOf[Match(b)] = b
<1>1. Index \subseteq Products BY SkuAssumption DEF Index
<1>2. ByBarcode(b) # {} /\ ByBarcode(b) \subseteq Products BY <1>1 DEF Candidates, ByBarcode
<1>3. Pick(ByBarcode(b)) \in ByBarcode(b) BY <1>2, PickIsBest
<1> QED BY <1>2, <1>3 DEF Match, ByBarcode

-----------------------------------------------------------------------------
(* One decision. *)

Changes == [sku: Products, from: Nat, to: Nat, why: {"stock", "dropped"}]

LEMMA StockDecides ==
    ASSUME TypeOK, NEW b \in Stocked, NEW d \in FromStock(b)
    PROVE  /\ d \in Changes
           /\ d = Change(Match(b), listing[Match(b)].quantity, Desired(row[b], Rules[Match(b)]), "stock")
           /\ d.sku = Match(b) /\ d.sku \in Index /\ Fit(d.sku) /\ d.sku \notin job.never
           /\ d.why = "stock"
<1> DEFINE s == Match(b)
<1>1. b \in Candidates /\ b \in Barcodes /\ row[b] \in Nat
  BY BarcodeAssumption, SkuAssumption, InputAssumption, NullAssumption
     DEF Stocked, Candidates, Index, TypeOK
<1>2. s \in Index /\ s \in Products BY <1>1, CandidateMatches, SkuAssumption DEF Index
<1>3. /\ d \in Decide(s, row[b], listing[s].quantity)
      /\ Fit(s) /\ s \notin job.never
  BY DEF FromStock
<1>4. d = Change(s, listing[s].quantity, Desired(row[b], Rules[s]), "stock")
      /\ listing[s].quantity # NoQty
  BY <1>3 DEF Decide
<1>5. listing[s].quantity \in Nat BY <1>2, <1>4 DEF TypeOK, Entries
<1>6. Rules[s] \in RuleSets BY <1>2, RulesAssumption
<1>7. Desired(row[b], Rules[s]) \in Nat
  <2>1. Rules[s].cap \in Nat /\ Rules[s].buffer \in Nat BY <1>6 DEF RuleSets
  <2> QED BY <1>1, <2>1 DEF Desired
<1> QED BY <1>2, <1>3, <1>4, <1>5, <1>7 DEF Change, Changes

LEMMA DroppedDecides ==
    ASSUME TypeOK, NEW d \in Dropped
    PROVE  /\ d \in Changes
           /\ d = Change(d.sku, listing[d.sku].quantity, 0, "dropped")
           /\ d.sku \in Index /\ Fit(d.sku)
           /\ d.why = "dropped"
<1>1. PICK s \in {t \in Index : Lost(t) /\ Fit(t)} : d \in DecideDropped(s, listing[s].quantity)
  BY DEF Dropped
<1>2. s \in Products BY <1>1, SkuAssumption DEF Index
<1>3. d = Change(s, listing[s].quantity, 0, "dropped") /\ listing[s].quantity # NoQty
  BY <1>1 DEF DecideDropped
<1>4. listing[s].quantity \in Nat BY <1>2, <1>3 DEF TypeOK, Entries
<1> QED BY <1>1, <1>2, <1>3, <1>4 DEF Change, Changes

LEMMA DecisionsOfBothKinds ==
    ASSUME TypeOK, NEW d \in Decisions
    PROVE  d \in Dropped \/ \E b \in Stocked : d \in FromStock(b)
<1> QED BY DEF Decisions

-----------------------------------------------------------------------------
(* The invariants. *)

\* Of any changes of one listing one is the last to be sent.  (Decision.priority)
LEMMA OneIsLast ==
    ASSUME NEW mine \in SUBSET Changes, mine # {}
    PROVE  LastOf(mine) \in mine
<1> DEFINE R == {2 - Rank(d) : d \in mine}
<1>1. R \in SUBSET Nat /\ R # {} BY DEF Rank
<1>2. PICK r \in R : \A q \in R : r <= q
  <2> HIDE DEF R
  <2> QED BY <1>1, LeastOf
<1> DEFINE last == {d \in mine : 2 - Rank(d) = r}
<1> DEFINE Z == {Size(d) : d \in last}
<1>3. \A d \in mine : Size(d) \in Nat /\ Rank(d) \in {0, 1, 2} BY DEF Size, Changes, Rank
<1>4. Z \in SUBSET Nat /\ Z # {} BY <1>2, <1>3
<1>5. PICK z \in Z : \A y \in Z : z <= y
  <2> HIDE DEF Z
  <2> QED BY <1>4, LeastOf
<1>6. PICK d \in last : Size(d) = z BY <1>5
<1>7. \A e \in mine : ~Before(d, e)
  <2> SUFFICES ASSUME NEW e \in mine PROVE ~Before(d, e) OBVIOUS
  <2>1. d \in mine /\ 2 - Rank(d) = r BY <1>6
  <2>2. 2 - Rank(d) <= 2 - Rank(e) BY <2>1, <1>2
  <2>3. Rank(d) >= Rank(e) BY <2>1, <2>2, <1>3
  <2>4. Rank(e) = Rank(d) => Size(d) <= Size(e) BY <2>1, <1>5, <1>6
  <2> QED BY <2>1, <2>3, <2>4, <1>3 DEF Before
<1>8. d \in mine BY <1>6
<1> QED BY <1>7, <1>8 DEF LastOf

IInv == TypeOK /\ OnlyOursIsTouched /\ OneDecisionPerListing /\ unmatched = {}

LEMMA InitIInv == Init => IInv
<1> SUFFICES ASSUME Init PROVE IInv OBVIOUS
<1>1. listing \in [Products -> Entries]
  <2>1. [present |-> FALSE, active |-> FALSE, quantity |-> NoQty] \in Entries BY DEF Entries
  <2> QED BY <2>1 DEF Init
<1>2. TypeOK BY <1>1 DEF Init, TypeOK
<1> QED BY <1>2 DEF Init, IInv, OnlyOursIsTouched, OneDecisionPerListing

\* A step that decides nothing keeps the statements about decisions.
LEMMA Undecided ==
    ASSUME decisions' = {}
    PROVE  OnlyOursIsTouched' /\ OneDecisionPerListing'
<1> QED BY DEF OnlyOursIsTouched, OneDecisionPerListing

LEMMA DecideStep ==
    ASSUME IInv, DecideRun
    PROVE  IInv'
<1> USE DEF IInv
<1>1. Decisions \subseteq Changes BY DecisionsOfBothKinds, StockDecides, DroppedDecides
<1>2. PICK sent \in SUBSET Decisions :
          listing' = [s \in Products |->
              LET mine == {d \in sent : d.sku = s} IN
              IF mine = {} THEN listing[s] ELSE [listing[s] EXCEPT !.quantity = LastOf(mine).to]]
  BY DEF DecideRun
<1>3. \A s \in Products : /\ listing'[s] \in Entries
                          /\ listing'[s].present = listing[s].present
                          /\ listing'[s].active = listing[s].active
  <2> SUFFICES ASSUME NEW s \in Products
               PROVE  /\ listing'[s] \in Entries
                      /\ listing'[s].present = listing[s].present
                      /\ listing'[s].active = listing[s].active
    OBVIOUS
  <2> DEFINE mine == {d \in sent : d.sku = s}
  <2>1. listing[s] \in Entries BY DEF TypeOK
  <2>2. mine # {} => LastOf(mine).to \in Nat
    <3>1. mine \in SUBSET Changes BY <1>1
    <3>2. ASSUME mine # {} PROVE LastOf(mine) \in Changes
      <4> HIDE DEF mine
      <4> QED BY <3>1, <3>2, OneIsLast
    <3> QED BY <3>2 DEF Changes
  <2>3. listing'[s] = IF mine = {} THEN listing[s] ELSE [listing[s] EXCEPT !.quantity = LastOf(mine).to]
    BY <1>2
  <2> HIDE DEF mine
  <2> QED BY <2>1, <2>2, <2>3 DEF Entries
<1>4. listing' \in [Products -> Entries] BY <1>2, <1>3
<1>5. \A b \in Stocked : Match(b) # NoSku
  BY CandidateMatches, SkuAssumption DEF Stocked, Index
<1>6. unmatched' = {} BY <1>5 DEF DecideRun
<1>7. TypeOK' BY <1>1, <1>4, <1>6 DEF DecideRun, TypeOK, known, operated, Changes
<1>8. OnlyOursIsTouched'
  <2> SUFFICES ASSUME NEW d \in Decisions
               PROVE  /\ d.sku \in InScope \ Untouchable
                      /\ listing'[d.sku].present /\ listing'[d.sku].active
                      /\ d.why = "stock" => d.sku \notin job'.never
    BY DEF OnlyOursIsTouched, DecideRun
  <2>1. d.sku \in Index /\ Fit(d.sku) /\ (d.why = "stock" => d.sku \notin job.never)
    BY DecisionsOfBothKinds, StockDecides, DroppedDecides
  <2>2. d.sku \in Products BY <2>1, SkuAssumption DEF Index
  <2>3. job'.never = job.never BY DEF DecideRun, TypeOK
  <2> QED BY <1>3, <2>1, <2>2, <2>3 DEF Index, Fit
<1>9. OneDecisionPerListing'
  <2> SUFFICES ASSUME \A b \in Barcodes : override[b] = NoSku,
                      NEW d \in Decisions, NEW e \in Decisions, d.sku = e.sku, d.why = e.why
               PROVE  d = e
    BY DEF OneDecisionPerListing, DecideRun, operated
  <2>1. CASE d \in Dropped
    <3>1. e \in Dropped BY <2>1, DroppedDecides, StockDecides, DecisionsOfBothKinds
    <3> QED BY <2>1, <3>1, DroppedDecides
  <2>2. CASE \E b \in Stocked : d \in FromStock(b)
    <3>1. PICK b \in Stocked : d \in FromStock(b) BY <2>2
    <3>2. PICK c \in Stocked : e \in FromStock(c)
      BY <3>1, DroppedDecides, StockDecides, DecisionsOfBothKinds
    <3>3. Match(b) = Match(c) BY <3>1, <3>2, StockDecides
    <3>4. b \in Candidates /\ c \in Candidates /\ b \in Barcodes /\ c \in Barcodes
      BY BarcodeAssumption, SkuAssumption DEF Stocked, Candidates, Index
    <3>5. override[b] \notin Index /\ override[c] \notin Index
      BY <3>4, SkuAssumption DEF Index
    <3>6. b = c BY <3>3, <3>4, <3>5, CandidateMatches
    <3> QED BY <3>1, <3>2, <3>6, StockDecides
  <2> QED BY <2>1, <2>2, DecisionsOfBothKinds
<1> QED BY <1>6, <1>7, <1>8, <1>9

THEOREM Invariance == Spec => []IInv
<1>1. IInv /\ [Next]_vars => IInv'
  <2> SUFFICES ASSUME IInv, [Next]_vars PROVE IInv' OBVIOUS
  <2> USE DEF IInv
  <2>1. CASE Ingest
    <3>1. TypeOK' BY <2>1, NullAssumption DEF Ingest, TypeOK, operated
    <3> QED BY <2>1, <3>1, Undecided DEF Ingest
  <2>2. CASE DecideRun BY <2>2, DecideStep
  <2>3. CASE Refresh
    <3>1. listing' \in [Products -> Entries] BY <2>3, InputAssumption DEF Refresh
    <3>2. TypeOK' BY <2>3, <3>1 DEF Refresh, TypeOK, known, operated
    <3> QED BY <2>3, <3>2, Undecided DEF Refresh
  <2>4. CASE AddOverride
    <3>1. TypeOK' BY <2>4, InputAssumption DEF AddOverride, TypeOK, known
    <3> QED BY <2>4, <3>1, Undecided DEF AddOverride
  <2>5. CASE DeleteOverride
    <3>1. TypeOK' BY <2>5 DEF DeleteOverride, TypeOK, known
    <3> QED BY <2>5, <3>1, Undecided DEF DeleteOverride
  <2>6. CASE SaveNeverTouch
    <3>1. TypeOK' BY <2>6, InputAssumption DEF SaveNeverTouch, TypeOK, known
    <3> QED BY <2>6, <3>1, Undecided DEF SaveNeverTouch
  <2>7. CASE UNCHANGED vars
    BY <2>7 DEF vars, known, operated, TypeOK, OnlyOursIsTouched, OneDecisionPerListing
  <2> QED BY <2>1, <2>2, <2>3, <2>4, <2>5, <2>6, <2>7 DEF Next
<1> QED BY InitIInv, <1>1, PTL DEF Spec

\* The types of Matching.
THEOREM TypeCorrect == Spec => []TypeOK
<1>1. IInv => TypeOK BY DEF IInv
<1> QED BY Invariance, <1>1, PTL

\* Nothing but a listing of ours that may be changed is ever changed, whatever
\* the operator maps to what.  (CatalogIndex, Mapper._finish, decide)
THEOREM OnlyOursAreTouched == Spec => []OnlyOursIsTouched
<1>1. IInv => OnlyOursIsTouched BY DEF IInv
<1> QED BY Invariance, <1>1, PTL

\* Without mappings a run never decides twice on one listing from the vendor's
\* stock.  (_decide)
THEOREM OneDecisionEach == Spec => []OneDecisionPerListing
<1>1. IInv => OneDecisionPerListing BY DEF IInv
<1> QED BY Invariance, <1>1, PTL

\* The queue of unmatched products never receives any: a run takes its barcodes
\* from the listings, and each of those is matched.  (_decide, _record_unmapped)
THEOREM NothingIsQueued == Spec => [](unmatched = {})
<1>1. IInv => unmatched = {} BY DEF IInv
<1> QED BY Invariance, <1>1, PTL

\* A listing that must not be changed never hides a twin that may be.  (_pick)
THEOREM FitTwinsArePicked == Spec => []FitTwinIsPicked
<1>1. FitTwinIsPicked
  <2> SUFFICES ASSUME NEW b \in Barcodes, override[b] \notin Index,
                      NEW s \in ByBarcode(b), Fit(s)
               PROVE  Fit(Match(b))
    BY DEF FitTwinIsPicked
  <2>1. ByBarcode(b) \in SUBSET Products BY SkuAssumption DEF ByBarcode, Index
  <2>2. Fit(Pick(ByBarcode(b))) BY <2>1, PickedIsFit
  <2> QED BY <2>2 DEF Match
<1> QED BY <1>1, PTL
=============================================================================
