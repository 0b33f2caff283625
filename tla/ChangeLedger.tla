---------------------------- MODULE ChangeLedger ----------------------------
(***************************************************************************)
(* What the push machinery promises of every single change, and nothing    *)
(* about jobs, sessions, locks or batches: a change is written down with   *)
(* its terms before it may go out; it goes out only while it is on record  *)
(* as released and unanswered; an answer is final or open, and an open one *)
(* is closed once; nothing ever returns to an earlier stage, and the terms *)
(* never change.                                                           *)
(***************************************************************************)
CONSTANTS Changes, Terms, NoTerms   \* NoTerms is none of Terms

VARIABLES
    stage,   \* how far a change has come, on record
    terms,   \* what it replaces and with what
    outside  \* the changes that reached Amazon

vars == <<stage, terms, outside>>

Stages == {"none", "proposed", "released", "open", "closed"}

Init ==
    /\ stage = [c \in Changes |-> "none"]
    /\ terms = [c \in Changes |-> NoTerms]
    /\ outside = {}

\* Changes are written down, for somebody to look at or to be sent at once.
Record(some, to) ==
    /\ some # {} /\ \A c \in some : stage[c] = "none"
    /\ to \in {"proposed", "released"}
    /\ stage' = [c \in Changes |-> IF c \in some THEN to ELSE stage[c]]
    /\ \A c \in Changes : IF c \in some THEN terms'[c] \in Terms ELSE terms'[c] = terms[c]
    /\ DOMAIN terms' = Changes
    /\ UNCHANGED outside

\* From here on they may go out.
Release(some) ==
    /\ some # {} /\ \A c \in some : stage[c] = "proposed"
    /\ stage' = [c \in Changes |-> IF c \in some THEN "released" ELSE stage[c]]
    /\ UNCHANGED <<terms, outside>>

Reach(some) ==
    /\ \A c \in some : stage[c] = "released"
    /\ outside' = outside \cup some
    /\ UNCHANGED <<stage, terms>>

\* The answers to some are written down, and open answers are closed.
Settle(open, closed) ==
    /\ \A c \in open : stage[c] = "released"
    /\ \A c \in closed : stage[c] \in {"released", "open"}
    /\ stage' = [c \in Changes |-> IF c \in closed THEN "closed"
                                   ELSE IF c \in open THEN "open" ELSE stage[c]]
    /\ UNCHANGED <<terms, outside>>

Next ==
    \/ \E some \in SUBSET Changes :
          Release(some) \/ Reach(some) \/ \E to \in Stages : Record(some, to)
    \/ \E open, closed \in SUBSET Changes : Settle(open, closed)

Spec == Init /\ [][Next]_vars
=============================================================================
