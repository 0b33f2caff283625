------------------------------ MODULE Decision ------------------------------
(***************************************************************************)
(* The rules that turn the vendor's stock into changes of Amazon           *)
(* quantities: what a listing should show, which differences are worth     *)
(* sending, which of them go first when a run may not send them all, and   *)
(* when a run must not send anything.                                      *)
(***************************************************************************)
EXTENDS Integers, FiniteSets

CONSTANTS
    Products,     \* in-scope listings, each with the barcode it is matched by
    Untouchable,  \* FBA, inactive or never-touch listings
    NoQty,        \* SQL NULL
    Rules,        \* the quantity policy of a product's format
    ChangeLimit,  \* max_changes_per_run; 0 is no limit
    MaxPercent,   \* guardrail_max_percent_changed
    MaxZeroing    \* guardrail_max_zeroing

RuleSets == [buffer: Nat, cap: Nat, zeroAt: Nat, minChange: Nat, increases: BOOLEAN]

ASSUME RulesAssumption == Rules \in [Products -> RuleSets] /\ Untouchable \subseteq Products
ASSUME LimitsAssumption == ChangeLimit \in Nat /\ MaxPercent \in Nat /\ MaxZeroing \in Nat
ASSUME NullAssumption == NoQty \notin Int

\* A mutant of Desired: the buffer comes off without a floor at zero.
DesiredUnfloored(stock, rules) ==
    IF stock <= rules.zeroAt THEN 0
    ELSE IF stock - rules.buffer > rules.cap THEN rules.cap ELSE stock - rules.buffer

\* desired_quantity: the threshold first, then the buffer, the cap, the floor.
Desired(stock, rules) ==
    IF stock <= rules.zeroAt \/ stock <= rules.buffer THEN 0
    ELSE IF stock - rules.buffer > rules.cap THEN rules.cap ELSE stock - rules.buffer

\* A decision knows why it was made: from the vendor's stock, or because the
\* vendor has dropped the product.
Change(p, from, to, why) == [sku |-> p, from |-> from, to |-> to, why |-> why]

Direction(d) == IF d.to = 0 THEN "to_zero" ELSE IF d.to < d.from THEN "down" ELSE "up"

Size(d) == IF d.to < d.from THEN d.from - d.to ELSE d.to - d.from

WorthSending(d, rules) ==
    /\ d.to # d.from
    /\ Direction(d) = "up" => rules.increases
    /\ Direction(d) = "to_zero" \/ Size(d) >= rules.minChange

\* DecisionEngine.decide: at most one change of p, which Amazon shows as shown.
Decide(p, stock, shown) ==
    IF p \in Untouchable \/ shown = NoQty THEN {}
    ELSE {d \in {Change(p, shown, Desired(stock, Rules[p]), "stock")} : WorthSending(d, Rules[p])}

\* DecisionEngine.decide_dropped: off sale, but never deleted.
DecideDropped(p, shown) ==
    IF p \in Untouchable \/ shown \in {NoQty, 0} THEN {} ELSE {Change(p, shown, 0, "dropped")}

-----------------------------------------------------------------------------
(* The change limit. *)

Rank(d) ==
    IF Direction(d) = "to_zero" THEN 0 ELSE IF Direction(d) = "down" THEN 1 ELSE 2

\* Decision.priority, up to the SKU's name: off sale first, then large first.
Before(d, e) == Rank(d) < Rank(e) \/ (Rank(d) = Rank(e) /\ Size(d) > Size(e))

Limited(decisions) == ChangeLimit > 0 /\ Cardinality(decisions) > ChangeLimit

\* apply_change_limit: what this run may send, however names break the ties.
ThisRun(decisions) ==
    IF ~Limited(decisions) THEN {decisions}
    ELSE {batch \in SUBSET decisions :
            /\ Cardinality(batch) = ChangeLimit
            /\ \A d \in batch, e \in decisions \ batch : ~Before(e, d)}

\* Of several decisions on one SKU the last one sent prevails.
LastOf(decisions) == CHOOSE d \in decisions : \A e \in decisions : ~Before(d, e)

-----------------------------------------------------------------------------
(* The gate. *)

\* check_percent_changed and check_zeroing_limit, the two that stop a run.
GatePassed(batch) ==
    /\ 100 * Cardinality(batch) <= MaxPercent * Cardinality(Products)
    /\ Cardinality({d \in batch : Direction(d) = "to_zero"}) <= MaxZeroing
=============================================================================
