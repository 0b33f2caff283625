----------------------------- MODULE MCApiCall -----------------------------
(* Instance of ApiCall for TLC: the thread that holds the run lock, and the one of the
   web page that tests the connection. *)
EXTENDS ApiCall

CONSTANTS job, web

MCKindsOf == [t \in Threads |-> IF t = job THEN {"report", "patch", "feed"} ELSE {"check"}]

\* A token of feeds.create takes 120.5 seconds, more than the 120 that take waits.
MCCost == [o \in Metered |-> IF o = "feeds.create" THEN Patience + 1 ELSE 1]
MCBurst == [o \in Metered |-> 1]

\* An allowance for reading is full again after a tick.
MCEarns == [o \in Metered |-> IF o \in Writes THEN 2 ELSE 4]

\* No more than AmazonAssumption asks for.
MCAmazonBurst == [o \in Metered |-> Larger(2 * MCBurst[o], MCBurst[o] + Cardinality(Threads))]
=============================================================================
