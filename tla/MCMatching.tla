----------------------------- MODULE MCMatching -----------------------------
(* SKUs 1 and 2 are twins, 3 holds the wide form of the same barcode, and 4  *)
(* belongs to another supplier.                                              *)
EXTENDS Matching

Seen(active) == [present |-> TRUE, active |-> active, quantity |-> 1]
Unseen == [present |-> FALSE, active |-> FALSE, quantity |-> NoQty]

MCRules == [s \in Products |-> [buffer |-> 2, cap |-> 2, zeroAt |-> 0, minChange |-> 1, increases |-> TRUE]]
MCBarcodeOf == [s \in Products |-> IF s = 3 THEN <<1, 14>> ELSE <<1, 13>>]
MCBuilt == [b \in Barcodes |-> IF b[2] = 13 THEN 1 ELSE NoSku]
MCReports == [s \in Products |->
    IF s = 1 THEN {Seen(TRUE), Seen(FALSE), Unseen}
    ELSE IF s = 2 THEN {Seen(TRUE), Unseen}
    ELSE IF s = 3 THEN {Seen(TRUE), Unseen}
    ELSE {Seen(TRUE)}]
MCMappings == {<<<<1, 14>>, 2>>, <<<<1, 13>>, 4>>}
=============================================================================
