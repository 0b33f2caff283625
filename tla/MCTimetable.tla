---------------------------- MODULE MCTimetable ----------------------------
EXTENDS Timetable

\* A day of four hours of two ticks; an interval of 3 does not divide it.  Zone 6 is an
\* hour ahead.
MCConfigs ==
    {[interval |-> 2, offset |-> 0, zone |-> 0, hourly |-> TRUE, hour |-> 3, minute |-> 1],
     [interval |-> 4, offset |-> 1, zone |-> 0, hourly |-> FALSE, hour |-> 0, minute |-> 1],
     [interval |-> 2, offset |-> 1, zone |-> 6, hourly |-> FALSE, hour |-> 2, minute |-> 0],
     [interval |-> 3, offset |-> 1, zone |-> 0, hourly |-> TRUE, hour |-> 2, minute |-> 0]}
=============================================================================
